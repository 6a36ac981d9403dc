---------------------------- MODULE IntakeProofs ----------------------------
(***************************************************************************)
(* Proofs about Intake, for any number of workers, requests and caterers.  *)
(*                                                                         *)
(* A form makes one request because an INSERT waits for the one that has   *)
(* its token and is refused by the one that is there: FormsAreSingle.  A   *)
(* client's edit finds the request as it read it because of the row lock:  *)
(* EditsAreAlone.                                                          *)
(***************************************************************************)
EXTENDS Intake, TLAPS

(* An INSERT that is not committed is the only one with its token, and its  *)
(* row is nobody else's.                                                    *)
InsertIsAlone ==
    \A w \in Workers : txn[w].op = "inserted" =>
        /\ txn[w].request \in Requests \ Written
        /\ txn[w].new.status # "absent"
        /\ \A v \in Workers \ {w} : txn[v].request # txn[w].request
        /\ txn[w].new.token # None =>
              /\ OfToken(txn[w].new.token) = {}
              /\ \A v \in Workers \ {w} :
                    txn[v].op = "inserted" => txn[v].new.token # txn[w].new.token

(* A change is about a row that is there; it keeps the token and deletes    *)
(* nothing.                                                                 *)
ChangeKeepsTheRow ==
    \A w \in Workers :
        /\ txn[w].op = "post" => txn[w].new.status # "absent"
        /\ txn[w].op \in {"edit", "open"} /\ txn[w].request # None =>
              /\ txn[w].request \in Written
              /\ txn[w].new.token = txn[w].loaded.token
              /\ txn[w].new.status # "absent"

(* A request that a client edits still waits for its review, and nobody     *)
(* else edits it.                                                           *)
EditsAreAlone ==
    \A w \in Workers :
        /\ txn[w].lock <=> txn[w].op = "edit"
        /\ txn[w].lock =>
              /\ txn[w].request \in Requests
              /\ request[txn[w].request].status = "pending_review"
              /\ \A v \in Workers \ {w} : txn[v].lock => txn[v].request # txn[w].request

(* The rows of the caterers are written over those that were loaded. *)
LoadedFirst ==
    \A w \in Workers : txn[w].now # None => txn[w].was \in [Caterers -> Caterer]

Inv == TypeOK /\ LoadedFirst /\ OneRequestPerForm /\ InsertIsAlone /\ ChangeKeepsTheRow /\ EditsAreAlone

-----------------------------------------------------------------------------
(* What a commit makes of a row: another row of its type; the columns that  *)
(* the handler did not change stay.                                         *)
LEMMA MergedRequest ==
    ASSUME NEW old \in Request, NEW new \in Request, NEW row \in Request
    PROVE  /\ Merged(old, new, row) \in Request
           /\ new.token = old.token => Merged(old, new, row).token = row.token
           /\ new.status # "absent" /\ row.status # "absent" => Merged(old, new, row).status # "absent"
           /\ new = old => Merged(old, new, row) = row
<1>1. DOMAIN row = {"status", "token", "reviewed", "meal", "address", "at"}
  BY DEF Request
<1>2. Merged(old, new, row) =
        [status |-> IF new.status # old.status THEN new.status ELSE row.status,
         token |-> IF new.token # old.token THEN new.token ELSE row.token,
         reviewed |-> IF new.reviewed # old.reviewed THEN new.reviewed ELSE row.reviewed,
         meal |-> IF new.meal # old.meal THEN new.meal ELSE row.meal,
         address |-> IF new.address # old.address THEN new.address ELSE row.address,
         at |-> IF new.at # old.at THEN new.at ELSE row.at]
  BY <1>1 DEF Merged
<1>3. row = [status |-> row.status, token |-> row.token, reviewed |-> row.reviewed,
        meal |-> row.meal, address |-> row.address, at |-> row.at]
  BY DEF Request
<1>4. Merged(old, new, row) \in Request
  BY <1>2 DEF Request
<1> QED BY <1>2, <1>3, <1>4

(* The same for the row of a caterer. *)
LEMMA MergedCaterer ==
    ASSUME NEW old \in Caterer, NEW new \in Caterer, NEW row \in Caterer
    PROVE  Merged(old, new, row) \in Caterer
<1>1. DOMAIN row = {"validated", "meals", "address", "limited", "at"}
  BY DEF Caterer
<1>2. Merged(old, new, row) =
        [validated |-> IF new.validated # old.validated THEN new.validated ELSE row.validated,
         meals |-> IF new.meals # old.meals THEN new.meals ELSE row.meals,
         address |-> IF new.address # old.address THEN new.address ELSE row.address,
         limited |-> IF new.limited # old.limited THEN new.limited ELSE row.limited,
         at |-> IF new.at # old.at THEN new.at ELSE row.at]
  BY <1>1 DEF Merged
<1> QED BY <1>2 DEF Caterer

(* The records that the handlers build. *)
LEMMA IdleTyped == Idle \in Txn /\ Absent \in Request
BY DEF Idle, Txn, Absent, Request, Status

LEMMA PostTyped ==
    ASSUME NEW q \in Request, NEW t \in SUBSET Caterers
    PROVE  [Idle EXCEPT !.op = "post", !.new = q, !.asks = t] \in Txn
BY IdleTyped DEF Idle, Txn

LEMMA ChangeTyped ==
    ASSUME TypeOK, NEW r \in Requests, NEW q \in Request, NEW l \in BOOLEAN,
           NEW t \in SUBSET Caterers, NEW was \in [Caterers -> Caterer],
           NEW now \in [Caterers -> Caterer]
    PROVE  /\ Change(r, q) \in Txn
           /\ [Change(r, q) EXCEPT !.op = "edit", !.lock = l] \in Txn
           /\ [Change(r, q) EXCEPT !.asks = t, !.was = was, !.now = now] \in Txn
<1>1. request[r] \in Request
  BY DEF TypeOK
<1> QED
  BY <1>1, IdleTyped DEF Change, Idle, Txn

LEMMA LocatedRequest ==
    ASSUME NEW q \in Request, NEW found \in SUBSET Places
    PROVE  /\ Located(q, found) \in Request
           /\ Located(q, found).token = q.token /\ Located(q, found).status = q.status
BY DEF Located, Request, Geocode

LEMMA LocatedCaterer ==
    ASSUME NEW c \in Caterer, NEW found \in SUBSET Places
    PROVE  Located(c, found) \in Caterer
BY DEF Located, Caterer, Geocode

LEMMA TypedForm ==
    ASSUME TypeOK, NEW r \in Requests, NEW form \in Forms
    PROVE  /\ Typed(r, form) \in Request
           /\ [Typed(r, form) EXCEPT !.at = form.at] \in Request
<1>1. form \in [meal : Meals \cup {None}, address : Places \cup {None},
                at : Places \cup {None}]
  BY IntakeAssumption
<1>2. request[r] \in Request
  BY DEF TypeOK
<1> QED
  BY <1>1, <1>2 DEF Typed, Request

-----------------------------------------------------------------------------
(* Initially there is no request. *)
LEMMA InitInv == Init => Inv
<1> SUFFICES ASSUME Init PROVE Inv
  OBVIOUS
<1>1. caterer \in [Caterers -> Caterer]
  <2>1. PICK profile \in [Caterers -> Profiles] :
          caterer = [c \in Caterers |->
                       [validated |-> TRUE, meals |-> profile[c].meals,
                        address |-> profile[c].address, limited |-> profile[c].limited,
                        at |-> None]]
    BY DEF Init
  <2>2. \A c \in Caterers : profile[c] \in [meals : SUBSET Meals,
                        address : Places \cup {None}, limited : BOOLEAN]
    BY IntakeAssumption
  <2> QED
    BY <2>1, <2>2 DEF Caterer
<1>2. TypeOK
  BY <1>1, IdleTyped DEF Init, TypeOK
<1>3. Written = {} /\ \A k \in Tokens : OfToken(k) = {}
  BY DEF Init, Written, OfToken, Absent
<1>4. OneRequestPerForm
  BY <1>3 DEF Init, OneRequestPerForm
<1>5. LoadedFirst /\ InsertIsAlone /\ ChangeKeepsTheRow /\ EditsAreAlone
  BY DEF Init, LoadedFirst, InsertIsAlone, ChangeKeepsTheRow, EditsAreAlone, Idle
<1> QED
  BY <1>2, <1>4, <1>5 DEF Inv

(* Every step keeps the types. *)
LEMMA TypeStep == TypeOK /\ LoadedFirst /\ [Next]_vars => TypeOK'
<1> USE DEF TypeOK
<1> SUFFICES ASSUME TypeOK, LoadedFirst, [Next]_vars PROVE TypeOK'
  OBVIOUS
<1>0. \A r \in Written : r \in Requests /\ request[r] \in Request
  BY DEF Written
<1>1. CASE UNCHANGED vars
  BY <1>1 DEF vars
<1>2. ASSUME NEW k \in Tokens, AlreadySent(k) PROVE TypeOK'
  BY <1>2 DEF AlreadySent, Answer, OfToken, Written
<1>3. ASSUME NEW c \in Caterers, NEW validated \in BOOLEAN, ValidateCaterer(c, validated)
      PROVE  TypeOK'
  <2>1. [caterer[c] EXCEPT !.validated = validated] \in Caterer
    BY DEF Caterer
  <2> QED
    BY <1>3, <2>1 DEF ValidateCaterer
<1>4. ASSUME NEW w \in Workers, NEW t \in Txn, Begin(w, t) PROVE TypeOK'
  BY <1>4 DEF Begin
<1>5. ASSUME NEW w \in Workers, Handler(w) PROVE TypeOK'
  <2>1. ASSUME NEW form \in Forms, NEW k \in Tokens \cup {None},
               NEW c \in Caterers \cup {None}, RequestsNewPost(w, form, k, c)
        PROVE  TypeOK'
    <3>1. form \in [meal : Meals \cup {None}, address : Places \cup {None},
                    at : Places \cup {None}]
      BY IntakeAssumption
    <3>2. RequestOf(form, k, c) \in Request
      BY <3>1 DEF RequestOf, Request, Status
    <3>3. {ResolveTarget(c)} \ {None} \in SUBSET Caterers
      BY DEF ResolveTarget
    <3>4. [Idle EXCEPT !.op = "post", !.new = RequestOf(form, k, c),
                       !.asks = {ResolveTarget(c)} \ {None}] \in Txn
      BY <3>2, <3>3, PostTyped
    <3> QED
      BY <2>1, <3>4 DEF RequestsNewPost
  <2>2. ASSUME NEW r \in Written, NEW form \in Forms, RequestEditPost(w, r, form)
        PROVE  TypeOK'
    <3>1. [Typed(r, form) EXCEPT !.at = form.at] \in Request
      BY <1>0, TypedForm
    <3>2. [Change(r, [Typed(r, form) EXCEPT !.at = form.at])
             EXCEPT !.op = "edit", !.lock = ReadForUpdate] \in Txn
      BY <1>0, <3>1, ChangeTyped DEF ReadForUpdate
    <3> QED
      BY <2>2, <1>4, <3>2 DEF RequestEditPost
  <2>3. ASSUME NEW r \in Written, NEW form \in Forms, NEW found \in SUBSET Places,
               QualificationEdit(w, r, form, found)
        PROVE  TypeOK'
    <3>1. Typed(r, form) \in Request
      BY <1>0, TypedForm
    <3>2. Relocated(request[r], Typed(r, form), found) \in Request
      BY <3>1 DEF Relocated, Request, Geocode
    <3> QED
      BY <2>3, <1>0, <1>4, <3>2, ChangeTyped DEF QualificationEdit
  <2>4. ASSUME NEW r \in Written, NEW found \in SUBSET Places,
               ApproveQuoteRequest(w, r, found)
        PROVE  TypeOK'
    <3> DEFINE validated == {c \in Caterers : caterer[c].validated}
               now == [c \in Caterers |-> IF c \in validated THEN Located(caterer[c], found)
                                           ELSE caterer[c]]
               q == Located(request[r], found)
               targets == {c \in validated : IsCatererEligible(now[c], q)}
               sent == IF targets = {} THEN q ELSE [q EXCEPT !.status = "sent_to_caterers"]
    <3>1. now \in [Caterers -> Caterer] /\ targets \in SUBSET Caterers
      BY LocatedCaterer
    <3>2. sent \in Request
      <4>1. q \in Request
        BY <1>0, LocatedRequest
      <4> HIDE DEF q
      <4>2. [q EXCEPT !.status = "sent_to_caterers"] \in Request
        BY <4>1 DEF Request, Status
      <4> QED
        BY <4>1, <4>2
    <3>3. Begin(w, [Change(r, sent) EXCEPT !.asks = targets, !.was = caterer, !.now = now])
      BY <2>4 DEF ApproveQuoteRequest
    <3> HIDE DEF now, sent, targets
    <3> QED
      BY <1>0, <1>4, <3>1, <3>2, <3>3, ChangeTyped
  <2>5. ASSUME NEW r \in Written, RejectQuoteRequest(w, r) PROVE TypeOK'
    <3>1. [request[r] EXCEPT !.status = "cancelled"] \in Request
      BY <1>0 DEF Request, Status
    <3> QED
      BY <2>5, <1>0, <1>4, <3>1, ChangeTyped DEF RejectQuoteRequest
  <2>6. ASSUME NEW c \in Caterers, NEW profile \in Profiles, NEW found \in SUBSET Places,
               ProfileSave(w, c, profile, found)
        PROVE  TypeOK'
    <3> DEFINE typed == [caterer[c] EXCEPT !.meals = profile.meals,
                           !.address = IF profile.address = None THEN @ ELSE profile.address,
                           !.limited = profile.limited]
               new == Located(Relocated(caterer[c], typed, found), found)
    <3>1. profile \in [meals : SUBSET Meals, address : Places \cup {None},
                       limited : BOOLEAN]
      BY IntakeAssumption
    <3>2. typed \in Caterer
      BY <3>1 DEF Caterer
    <3>3. Relocated(caterer[c], typed, found) \in Caterer
      BY <3>2 DEF Relocated, Caterer, Geocode
    <3>4. new \in Caterer
      BY <3>3, LocatedCaterer
    <3>5. Begin(w, [Idle EXCEPT !.op = "open", !.was = caterer,
                                !.now = [caterer EXCEPT ![c] = new]])
      BY <2>6 DEF ProfileSave
    <3> HIDE DEF new
    <3>6. [Idle EXCEPT !.op = "open", !.was = caterer,
                       !.now = [caterer EXCEPT ![c] = new]] \in Txn
      BY <3>4, IdleTyped DEF Idle, Txn
    <3> QED
      BY <1>4, <3>5, <3>6
  <2>7. ASSUME NEW r \in Requests, NEW found \in SUBSET Places, InsertRequest(w, r, found)
        PROVE  TypeOK'
    <3>1. Located(txn[w].new, found) \in Request
      BY LocatedRequest DEF Txn
    <3>2. [txn[w] EXCEPT !.op = "inserted", !.request = r,
                         !.new = Located(txn[w].new, found)] \in Txn
      BY <3>1 DEF Txn
    <3>3. txn' = [txn EXCEPT ![w] = [txn[w] EXCEPT !.op = "inserted", !.request = r,
                                       !.new = Located(txn[w].new, found)]]
      BY <2>7 DEF InsertRequest
    <3> QED
      BY <2>7, <3>2, <3>3 DEF InsertRequest
  <2>8. CASE InsertRefused(w)
    <3>1. answers' \in [Tokens -> SUBSET (Requests \cup {None})]
      BY <2>8 DEF InsertRefused, Answer, OfToken, Written
    <3> QED
      BY <2>8, <3>1, IdleTyped DEF InsertRefused
  <2>9. CASE CommitPost(w)
    <3>1. txn[w].new \in Request /\ txn[w].asks \in SUBSET Caterers
      BY DEF Txn
    <3>2. txn[w].request \in Requests \cup {None}
      BY DEF Txn
    <3>3. request' \in [Requests -> Request] /\ asked' \in [Requests -> SUBSET Caterers]
      BY <2>9, <3>1 DEF CommitPost
    <3>4. answers' \in [Tokens -> SUBSET (Requests \cup {None})]
      BY <2>9, <3>2 DEF CommitPost, Answer
    <3> QED
      BY <2>9, <3>3, <3>4, IdleTyped DEF CommitPost
  <2>10. CASE Commit(w)
    <3>1. /\ txn[w].loaded \in Request /\ txn[w].new \in Request
          /\ txn[w].asks \in SUBSET Caterers
          /\ txn[w].now # None => /\ txn[w].was \in [Caterers -> Caterer]
                                 /\ txn[w].now \in [Caterers -> Caterer]
      BY DEF Txn, LoadedFirst
    <3>2. request' \in [Requests -> Request]
      BY <2>10, <3>1, MergedRequest DEF Commit
    <3>3. asked' \in [Requests -> SUBSET Caterers]
      BY <2>10, <3>1 DEF Commit
    <3>4. caterer' \in [Caterers -> Caterer]
      BY <2>10, <3>1, MergedCaterer DEF Commit
    <3> QED
      BY <2>10, <3>2, <3>3, <3>4, IdleTyped DEF Commit
  <2>11. CASE Abort(w)
    BY <2>11, IdleTyped DEF Abort
  <2> QED
    BY <1>5, <2>1, <2>2, <2>3, <2>4, <2>5, <2>6, <2>7, <2>8, <2>9, <2>10, <2>11 DEF Handler
<1> QED
  BY <1>1, <1>2, <1>3, <1>5 DEF Next

-----------------------------------------------------------------------------
(* The part of the invariant that is not about types. *)
Kept == LoadedFirst /\ OneRequestPerForm /\ InsertIsAlone /\ ChangeKeepsTheRow /\ EditsAreAlone

(* A handler that begins, or gives up, keeps the invariant if what it       *)
(* carries is sound.                                                        *)
LEMMA BeginStep ==
    ASSUME Inv, NEW w \in Workers, NEW t \in Txn, txn' = [txn EXCEPT ![w] = t],
           request' = request, answers' = answers,
           t.op \in {"idle", "post", "edit", "open"},
           t.request \in Written \cup {None},
           t.op = "post" => t.new.status # "absent",
           t.request # None => t.new.token = t.loaded.token /\ t.new.status # "absent",
           t.lock <=> t.op = "edit",
           t.lock => t.request # None /\ request[t.request].status = "pending_review"
                       /\ ~ RowLocked(t.request),
           t.now # None => t.was \in [Caterers -> Caterer]
    PROVE  Kept'
<1> USE DEF Inv
<1>0. txn \in [Workers -> Txn]
  BY DEF TypeOK
<1>1. /\ Written' = Written /\ Written \subseteq Requests
      /\ \A k : OfToken(k)' = OfToken(k)
  BY DEF Written, OfToken
<1>2. txn'[w] = t /\ \A v \in Workers \ {w} : txn'[v] = txn[v]
  BY <1>0
<1>3. LoadedFirst'
  BY <1>2 DEF LoadedFirst
<1>4. OneRequestPerForm'
  BY <1>1 DEF OneRequestPerForm
<1>5. InsertIsAlone'
  <2> SUFFICES ASSUME NEW v \in Workers \ {w}, txn[v].op = "inserted"
               PROVE  /\ txn[v].request \in Requests \ Written
                      /\ txn[v].new.status # "absent"
                      /\ \A u \in Workers \ {v} : txn'[u].request # txn[v].request
                      /\ txn[v].new.token # None =>
                            /\ OfToken(txn[v].new.token) = {}
                            /\ \A u \in Workers \ {v} :
                                  txn'[u].op = "inserted" => txn'[u].new.token # txn[v].new.token
    BY <1>1, <1>2 DEF InsertIsAlone
  <2>0. InsertIsAlone
    OBVIOUS
  <2>1. txn[v].request \in Requests \ Written /\ txn[v].new.status # "absent"
    BY <2>0 DEF InsertIsAlone
  <2>2. t.request # txn[v].request
    BY <2>1, IntakeAssumption
  <2>3. \A u \in Workers \ {v} : txn'[u].request # txn[v].request
    BY <2>0, <2>2, <1>2 DEF InsertIsAlone
  <2>4. txn[v].new.token # None =>
          /\ OfToken(txn[v].new.token) = {}
          /\ \A u \in Workers \ {v} :
                txn'[u].op = "inserted" => txn'[u].new.token # txn[v].new.token
    BY <2>0, <1>2 DEF InsertIsAlone
  <2> QED
    BY <2>1, <2>3, <2>4
<1>6. ChangeKeepsTheRow'
  BY <1>1, <1>2 DEF ChangeKeepsTheRow
<1>7. EditsAreAlone'
  BY <1>1, <1>2 DEF EditsAreAlone, RowLocked
<1> QED
  BY <1>3, <1>4, <1>5, <1>6, <1>7 DEF Kept

(* The INSERT of a request keeps the invariant. *)
LEMMA InsertStep ==
    ASSUME Inv, NEW w \in Workers, NEW r \in Requests, NEW found \in SUBSET Places,
           InsertRequest(w, r, found)
    PROVE  Kept'
<1>0. txn \in [Workers -> Txn] /\ txn[w].new \in Request
  BY DEF Inv, TypeOK, Txn
<1>1. /\ Written' = Written
      /\ \A k : OfToken(k)' = OfToken(k)
  BY DEF Written, OfToken, InsertRequest
<1>2. /\ txn'[w].op = "inserted" /\ txn'[w].request = r
      /\ txn'[w].new = Located(txn[w].new, found)
      /\ txn'[w].was = txn[w].was /\ txn'[w].now = txn[w].now /\ txn'[w].lock = txn[w].lock
      /\ txn[w].op = "post"
      /\ \A v \in Workers \ {w} : txn'[v] = txn[v]
  BY <1>0 DEF InsertRequest, Txn
<1>3. txn'[w].new.token = txn[w].new.token /\ txn'[w].new.status = txn[w].new.status
  BY <1>0, <1>2, LocatedRequest
<1>4. LoadedFirst'
  BY <1>2 DEF LoadedFirst, Inv
<1>5. OneRequestPerForm'
  BY <1>1 DEF OneRequestPerForm, Inv, InsertRequest
<1>6. InsertIsAlone'
  <2>1. \A v \in Workers \ {w} : txn[v].request # r
    BY DEF InsertRequest, InUse
  <2>2. r \in Requests \ Written /\ txn[w].new.status # "absent"
    BY <1>2 DEF InsertRequest, InUse, Inv, ChangeKeepsTheRow
  <2>3. \A v \in Workers \ {w} :
          txn[v].op = "inserted" /\ txn[w].new.token # None => txn[v].new.token # txn[w].new.token
    BY DEF InsertRequest, TokenFree
  <2>4. OfToken(txn[w].new.token) = {}
    BY DEF InsertRequest, TokenTaken
  <2> QED
    BY <1>1, <1>2, <1>3, <2>1, <2>2, <2>3, <2>4 DEF Inv, InsertIsAlone
<1>7. ChangeKeepsTheRow'
  BY <1>1, <1>2 DEF Inv, ChangeKeepsTheRow
<1>8. EditsAreAlone'
  <2>1. ~ txn[w].lock /\ request' = request
    BY <1>2 DEF Inv, EditsAreAlone, InsertRequest
  <2> QED
    BY <1>2, <2>1 DEF Inv, EditsAreAlone
<1> QED
  BY <1>4, <1>5, <1>6, <1>7, <1>8 DEF Kept

(* ... and so does its commit. *)
LEMMA CommitPostStep ==
    ASSUME Inv, NEW w \in Workers, CommitPost(w)
    PROVE  Kept'
<1> DEFINE r == txn[w].request
           q == txn[w].new
<1>0. txn \in [Workers -> Txn] /\ request \in [Requests -> Request]
        /\ answers \in [Tokens -> SUBSET (Requests \cup {None})]
  BY DEF Inv, TypeOK
<1>1. /\ r \in Requests \ Written /\ q.status # "absent"
      /\ \A v \in Workers \ {w} : txn[v].request # r
      /\ q.token # None =>
            /\ OfToken(q.token) = {}
            /\ \A v \in Workers \ {w} : txn[v].op = "inserted" => txn[v].new.token # q.token
  BY DEF CommitPost, Inv, InsertIsAlone
<1>2. request' = [request EXCEPT ![r] = q]
  BY DEF CommitPost
<1>3. txn'[w] = Idle /\ \A v \in Workers \ {w} : txn'[v] = txn[v]
  BY <1>0 DEF CommitPost
<1>a. answers' = [t \in Tokens |-> IF t = q.token THEN answers[t] \cup {r} ELSE answers[t]]
  BY DEF CommitPost, Answer
<1> HIDE DEF r, q
<1>4. Written' = Written \cup {r}
  BY <1>0, <1>1, <1>2 DEF Written
<1>5. \A k : k # q.token => OfToken(k)' = OfToken(k)
  BY <1>0, <1>1, <1>2, <1>4 DEF OfToken
<1>6. \A k : k = q.token /\ k # None => OfToken(k)' = {r}
  <2> SUFFICES ASSUME NEW k, k = q.token, k # None PROVE OfToken(k)' = {r}
    OBVIOUS
  <2>1. \A x \in Written : request[x].token # k
    BY <1>1 DEF OfToken
  <2>2. \A x \in Written : request'[x] = request[x]
    BY <1>0, <1>1, <1>2 DEF Written
  <2>3. request'[r] = q
    BY <1>0, <1>1, <1>2
  <2> QED
    BY <1>4, <2>1, <2>2, <2>3 DEF OfToken
<1>7. LoadedFirst'
  BY <1>3 DEF LoadedFirst, Inv, Idle
<1>8. OneRequestPerForm'
  <2> SUFFICES ASSUME NEW k \in Tokens
               PROVE  /\ \A x, y \in OfToken(k)' : x = y
                      /\ answers'[k] \subseteq OfToken(k)'
    BY DEF OneRequestPerForm
  <2>1. (\A x, y \in OfToken(k) : x = y) /\ answers[k] \subseteq OfToken(k)
    BY DEF Inv, OneRequestPerForm
  <2>2. CASE k # q.token
    BY <2>1, <2>2, <1>5, <1>a
  <2>3. CASE k = q.token
    <3>1. k # None
      BY IntakeAssumption
    <3>2. answers'[k] = answers[k] \cup {r}
      BY <2>3, <1>a
    <3>3. OfToken(k) = {} /\ OfToken(k)' = {r}
      BY <2>3, <3>1, <1>1, <1>6
    <3> QED
      BY <2>1, <3>2, <3>3
  <2> QED
    BY <2>2, <2>3
<1>9. InsertIsAlone'
  <2> SUFFICES ASSUME NEW v \in Workers \ {w}, txn[v].op = "inserted"
               PROVE  /\ txn[v].request \in Requests \ Written'
                      /\ txn[v].new.status # "absent"
                      /\ \A u \in Workers \ {v} : txn'[u].request # txn[v].request
                      /\ txn[v].new.token # None =>
                            /\ OfToken(txn[v].new.token)' = {}
                            /\ \A u \in Workers \ {v} :
                                  txn'[u].op = "inserted" => txn'[u].new.token # txn[v].new.token
    BY <1>3 DEF InsertIsAlone, Idle
  <2>0. InsertIsAlone
    BY DEF Inv
  <2>1. /\ txn[v].request \in Requests \ Written /\ txn[v].new.status # "absent"
        /\ txn[v].request # r
    BY <2>0, <1>1 DEF InsertIsAlone
  <2>2. \A u \in Workers \ {v} : txn'[u].request # txn[v].request
    BY <2>0, <2>1, <1>3, IntakeAssumption DEF InsertIsAlone, Idle
  <2>3. txn[v].new.token # None =>
          \A u \in Workers \ {v} :
             txn'[u].op = "inserted" => txn'[u].new.token # txn[v].new.token
    BY <2>0, <1>3 DEF InsertIsAlone, Idle
  <2>4. \A k : k = txn[v].new.token /\ k # None => OfToken(k)' = {}
    BY <2>0, <1>1, <1>5 DEF InsertIsAlone
  <2>5. txn'[v] = txn[v]
    BY <1>3
  <2> QED
    BY <1>4, <2>1, <2>2, <2>3, <2>4, <2>5
<1>10. ChangeKeepsTheRow'
  BY <1>3, <1>4 DEF Inv, ChangeKeepsTheRow, Idle
<1>11. EditsAreAlone'
  BY <1>0, <1>1, <1>2, <1>3 DEF Inv, EditsAreAlone, Idle
<1> QED
  BY <1>7, <1>8, <1>9, <1>10, <1>11 DEF Kept

(* A commit changes neither the token of a row nor whether it is there, and *)
(* leaves alone a request that somebody else is editing.                    *)
LEMMA CommitStep ==
    ASSUME Inv, NEW w \in Workers, Commit(w)
    PROVE  Kept'
<1> DEFINE t == txn[w]
<1>0. txn \in [Workers -> Txn] /\ request \in [Requests -> Request]
        /\ t.loaded \in Request /\ t.new \in Request
  BY DEF Inv, TypeOK, Txn
<1>1. txn'[w] = Idle /\ \A v \in Workers \ {w} : txn'[v] = txn[v]
  BY <1>0 DEF Commit
<1>2. \A r \in Requests : request'[r] = IF r = t.request
                          THEN Merged(t.loaded, t.new, request[r]) ELSE request[r]
  BY DEF Commit
<1>3. t.op \in {"edit", "open"}
        /\ (~ t.lock /\ (t.loaded # t.new \/ t.asks # {}) => ~ RowLocked(t.request))
  BY DEF Commit
<1> HIDE DEF t
<1>4. t.request # None => t.request \in Written /\ t.new.token = t.loaded.token
                            /\ t.new.status # "absent"
  BY <1>3 DEF Inv, ChangeKeepsTheRow, t
<1>5. \A r \in Requests : /\ request'[r].token = request[r].token
                          /\ request[r].status # "absent" <=> request'[r].status # "absent"
  <2> SUFFICES ASSUME NEW r \in Requests, r = t.request
               PROVE  /\ request'[r].token = request[r].token
                      /\ request[r].status # "absent" <=> request'[r].status # "absent"
    BY <1>2
  <2>1. r # None
    BY IntakeAssumption
  <2>2. request[r].status # "absent" /\ t.new.token = t.loaded.token
          /\ t.new.status # "absent"
    BY <1>4, <2>1 DEF Written
  <2> QED
    BY <1>0, <1>2, <2>2, MergedRequest
<1>6. Written' = Written
  BY <1>5 DEF Written
<1>7. \A k : OfToken(k)' = OfToken(k)
  BY <1>5, <1>6 DEF OfToken, Written
<1>8. LoadedFirst'
  BY <1>1 DEF LoadedFirst, Inv, Idle
<1>9. OneRequestPerForm'
  BY <1>7 DEF Inv, OneRequestPerForm, Commit
<1>10. InsertIsAlone'
  <2>1. \A v \in Workers : txn'[v].op = "inserted" => v # w
    BY <1>1 DEF Idle
  <2>2. \A v \in Workers : txn[v].op = "inserted" => Idle.request # txn[v].request
    BY IntakeAssumption DEF Idle, Inv, InsertIsAlone
  <2> QED
    BY <1>1, <1>6, <1>7, <2>1, <2>2 DEF Inv, InsertIsAlone
<1>11. ChangeKeepsTheRow'
  BY <1>1, <1>6 DEF Inv, ChangeKeepsTheRow, Idle
<1>12. EditsAreAlone'
  <2>1. ASSUME NEW v \in Workers \ {w}, txn[v].lock
        PROVE  request'[txn[v].request] = request[txn[v].request]
    <3>1. txn[v].request \in Requests /\ (t.lock => t.request # txn[v].request)
      BY <2>1 DEF Inv, EditsAreAlone, t
    <3>2. CASE txn[v].request # t.request
      BY <1>2, <3>1, <3>2
    <3>3. CASE txn[v].request = t.request
      <4>1. t.loaded = t.new
        BY <1>3, <2>1, <3>1, <3>3 DEF RowLocked
      <4> QED
        BY <1>0, <1>2, <3>1, <4>1, MergedRequest
    <3> QED
      BY <3>2, <3>3
  <2> QED
    BY <1>1, <2>1 DEF Inv, EditsAreAlone, Idle
<1> QED
  BY <1>8, <1>9, <1>10, <1>11, <1>12 DEF Kept

(* Every step keeps the invariant. *)
LEMMA KeptStep == Inv /\ [Next]_vars => Kept'
<1> SUFFICES ASSUME Inv, [Next]_vars PROVE Kept'
  OBVIOUS
<1> USE DEF Begin
<1>0. /\ txn \in [Workers -> Txn]
      /\ \A r \in Written : r \in Requests /\ request[r] \in Request
                            /\ request[r].status # "absent"
      /\ caterer \in [Caterers -> Caterer]
  BY DEF Inv, TypeOK, Written
<1>a. ASSUME UNCHANGED <<request, txn>>,
             \A k \in Tokens : answers'[k] \subseteq answers[k] \cup OfToken(k)
      PROVE  Kept'
  BY <1>a DEF Inv, Kept, LoadedFirst, OneRequestPerForm, InsertIsAlone, ChangeKeepsTheRow,
     EditsAreAlone, OfToken, Written
<1>1. CASE UNCHANGED vars
  BY <1>1, <1>a DEF vars
<1>2. ASSUME NEW k \in Tokens, AlreadySent(k) PROVE Kept'
  <2>1. \A t \in Tokens : answers'[t] \subseteq answers[t] \cup OfToken(t)
    BY <1>2 DEF AlreadySent, Answer
  <2> QED
    BY <1>2, <2>1, <1>a DEF AlreadySent
<1>3. ASSUME NEW c \in Caterers, NEW validated \in BOOLEAN, ValidateCaterer(c, validated)
      PROVE  Kept'
  BY <1>3, <1>a DEF ValidateCaterer
<1>4. ASSUME NEW w \in Workers, Handler(w) PROVE Kept'
  <2>1. ASSUME NEW form \in Forms, NEW k \in Tokens \cup {None},
               NEW c \in Caterers \cup {None}, RequestsNewPost(w, form, k, c)
        PROVE  Kept'
    <3> DEFINE t == [Idle EXCEPT !.op = "post", !.new = RequestOf(form, k, c),
                                !.asks = {ResolveTarget(c)} \ {None}]
    <3>1. t \in Txn
      <4>1. form \in [meal : Meals \cup {None}, address : Places \cup {None},
                      at : Places \cup {None}]
        BY IntakeAssumption
      <4>2. RequestOf(form, k, c) \in Request
        BY <4>1 DEF RequestOf, Request, Status
      <4>3. {ResolveTarget(c)} \ {None} \in SUBSET Caterers
        BY DEF ResolveTarget
      <4> QED
        BY <4>2, <4>3, PostTyped
    <3>2. /\ t.op = "post" /\ t.request = None /\ t.new.status # "absent" /\ ~ t.lock
          /\ t.now = None
      BY DEF Idle, RequestOf
    <3>3. txn' = [txn EXCEPT ![w] = t] /\ UNCHANGED <<request, answers>>
      BY <2>1 DEF RequestsNewPost
    <3> HIDE DEF t
    <3> QED
      BY <3>1, <3>2, <3>3, BeginStep
  <2>2. ASSUME NEW r \in Written, NEW form \in Forms, RequestEditPost(w, r, form)
        PROVE  Kept'
    <3> DEFINE q == [Typed(r, form) EXCEPT !.at = form.at]
               t == [Change(r, q) EXCEPT !.op = "edit", !.lock = ReadForUpdate]
    <3>1. q \in Request
      BY <1>0, TypedForm DEF Inv
    <3>2. q.token = request[r].token /\ q.status = request[r].status
      BY <1>0 DEF Typed, Request
    <3> HIDE DEF q
    <3>3. t \in Txn
      BY <1>0, <3>1, ChangeTyped DEF Inv, ReadForUpdate
    <3>4. /\ t.op = "edit" /\ t.request = r /\ t.new = q /\ t.loaded = request[r]
          /\ t.lock /\ t.now = None
      BY DEF Change, Idle, ReadForUpdate
    <3>5. txn' = [txn EXCEPT ![w] = t] /\ UNCHANGED <<request, answers>>
      BY <2>2 DEF RequestEditPost, q
    <3>6. request[r].status = "pending_review" /\ ~ RowLocked(r)
      BY <2>2 DEF RequestEditPost
    <3>7. r # None
      BY <1>0, IntakeAssumption
    <3> HIDE DEF t
    <3> QED
      BY <1>0, <3>2, <3>3, <3>4, <3>5, <3>6, <3>7, BeginStep
  <2>3. ASSUME NEW r \in Written, NEW q \in Request, NEW t \in Txn, Begin(w, t),
               t.op = "open", t.request = r, t.loaded = request[r], t.new = q, ~ t.lock,
               t.now # None => t.was \in [Caterers -> Caterer],
               q.token = request[r].token, q.status # "absent"
        PROVE  Kept'
    BY <2>3, BeginStep
  <2>4. ASSUME NEW r \in Written, NEW q \in Request, Begin(w, Change(r, q)),
               q.token = request[r].token, q.status # "absent"
        PROVE  Kept'
    <3>1. /\ Change(r, q).op = "open" /\ Change(r, q).request = r /\ Change(r, q).new = q
          /\ Change(r, q).loaded = request[r] /\ ~ Change(r, q).lock
          /\ Change(r, q).now = None
      BY DEF Change, Idle
    <3>2. Change(r, q) \in Txn
      BY <1>0, IdleTyped DEF Change, Idle, Txn
    <3> QED
      BY <2>3, <2>4, <3>1, <3>2
  <2>5. ASSUME NEW r \in Written, NEW form \in Forms, NEW found \in SUBSET Places,
               QualificationEdit(w, r, form, found)
        PROVE  Kept'
    <3> DEFINE q == Relocated(request[r], Typed(r, form), found)
    <3>1. Typed(r, form) \in Request
      BY <1>0, TypedForm DEF Inv
    <3>2. Typed(r, form).token = request[r].token /\ Typed(r, form).status = request[r].status
      BY <1>0 DEF Typed, Request
    <3>3. q \in Request /\ q.token = request[r].token /\ q.status = request[r].status
      BY <3>1, <3>2 DEF Relocated, Request, Geocode
    <3>4. Begin(w, Change(r, q))
      BY <2>5 DEF QualificationEdit
    <3> HIDE DEF q
    <3> QED
      BY <1>0, <2>4, <3>3, <3>4
  <2>6. ASSUME NEW r \in Written, NEW found \in SUBSET Places,
               ApproveQuoteRequest(w, r, found)
        PROVE  Kept'
    <3> DEFINE validated == {c \in Caterers : caterer[c].validated}
               now == [c \in Caterers |-> IF c \in validated THEN Located(caterer[c], found)
                                           ELSE caterer[c]]
               q == Located(request[r], found)
               targets == {c \in validated : IsCatererEligible(now[c], q)}
               sent == IF targets = {} THEN q ELSE [q EXCEPT !.status = "sent_to_caterers"]
               t == [Change(r, sent) EXCEPT !.asks = targets, !.was = caterer, !.now = now]
    <3>1. now \in [Caterers -> Caterer] /\ targets \in SUBSET Caterers
      BY <1>0, LocatedCaterer
    <3>2. q \in Request /\ q.token = request[r].token /\ q.status = request[r].status
      BY <1>0, LocatedRequest
    <3>3. Begin(w, t)
      BY <2>6 DEF ApproveQuoteRequest
    <3> HIDE DEF q, now, targets
    <3>4. sent \in Request /\ sent.token = request[r].token /\ sent.status # "absent"
      BY <1>0, <3>2 DEF Request, Status
    <3> HIDE DEF sent
    <3>5. /\ t.op = "open" /\ t.request = r /\ t.new = sent /\ t.loaded = request[r]
          /\ ~ t.lock /\ t.was = caterer
      BY DEF Change, Idle
    <3>6. t \in Txn
      BY <1>0, <3>1, <3>4, ChangeTyped DEF Inv
    <3> HIDE DEF t
    <3> QED
      BY <1>0, <2>3, <3>3, <3>4, <3>5, <3>6
  <2>7. ASSUME NEW r \in Written, RejectQuoteRequest(w, r) PROVE Kept'
    <3> DEFINE q == [request[r] EXCEPT !.status = "cancelled"]
    <3>1. q \in Request /\ q.token = request[r].token /\ q.status # "absent"
      BY <1>0 DEF Request, Status
    <3>2. Begin(w, Change(r, q))
      BY <2>7 DEF RejectQuoteRequest
    <3> HIDE DEF q
    <3> QED
      BY <2>4, <3>1, <3>2
  <2>8. ASSUME NEW c \in Caterers, NEW profile \in Profiles, NEW found \in SUBSET Places,
               ProfileSave(w, c, profile, found)
        PROVE  Kept'
    <3> DEFINE typed == [caterer[c] EXCEPT !.meals = profile.meals,
                           !.address = IF profile.address = None THEN @ ELSE profile.address,
                           !.limited = profile.limited]
               new == Located(Relocated(caterer[c], typed, found), found)
               t == [Idle EXCEPT !.op = "open", !.was = caterer,
                                !.now = [caterer EXCEPT ![c] = new]]
    <3>1. profile \in [meals : SUBSET Meals, address : Places \cup {None},
                       limited : BOOLEAN]
      BY IntakeAssumption
    <3>2. typed \in Caterer
      BY <1>0, <3>1 DEF Caterer
    <3>3. Relocated(caterer[c], typed, found) \in Caterer
      BY <1>0, <3>2 DEF Relocated, Caterer, Geocode
    <3>4. new \in Caterer
      BY <3>3, LocatedCaterer
    <3>5. Begin(w, t)
      BY <2>8 DEF ProfileSave
    <3> HIDE DEF new
    <3>6. t \in Txn
      BY <1>0, <3>4, IdleTyped DEF Idle, Txn
    <3>7. t.op = "open" /\ t.request = None /\ ~ t.lock /\ t.was = caterer
      BY DEF Idle
    <3> HIDE DEF t
    <3> QED
      BY <1>0, <3>5, <3>6, <3>7, BeginStep
  <2>9. ASSUME txn' = [txn EXCEPT ![w] = Idle], UNCHANGED <<request, answers>>
        PROVE  Kept'
    <3>1. Idle.op = "idle" /\ Idle.request = None /\ ~ Idle.lock /\ Idle.now = None
      BY DEF Idle
    <3> QED
      BY <2>9, <3>1, BeginStep, IdleTyped
  <2>10. CASE InsertRefused(w)
    <3>1. OfToken(txn[w].new.token) # {}
      BY <2>10 DEF InsertRefused, TokenTaken
    <3>2. \A t \in Tokens : answers'[t] \subseteq answers[t] \cup OfToken(t)
      BY <2>10, <3>1 DEF InsertRefused, Answer
    <3>3. \A t \in Tokens : answers'[t] \subseteq OfToken(t)
      BY <3>2 DEF Inv, OneRequestPerForm
    <3>4. /\ txn'[w] = Idle /\ \A v \in Workers \ {w} : txn'[v] = txn[v]
          /\ request' = request
      BY <1>0, <2>10 DEF InsertRefused
    <3>5. Written' = Written /\ \A k : OfToken(k)' = OfToken(k)
      BY <3>4 DEF Written, OfToken
    <3>6. OneRequestPerForm'
      BY <3>3, <3>5 DEF Inv, OneRequestPerForm
    <3>7. LoadedFirst' /\ ChangeKeepsTheRow' /\ EditsAreAlone'
      BY <3>4, <3>5 DEF Inv, LoadedFirst, ChangeKeepsTheRow, EditsAreAlone, Idle
    <3>8. InsertIsAlone'
      <4>1. \A v \in Workers : txn[v].op = "inserted" => txn[v].request # None
        BY IntakeAssumption DEF Inv, InsertIsAlone
      <4> QED
        BY <3>4, <3>5, <4>1 DEF Inv, InsertIsAlone, Idle
    <3> QED
      BY <3>6, <3>7, <3>8 DEF Kept
  <2>11. CASE Abort(w)
    BY <2>9, <2>11 DEF Abort
  <2> QED
    BY <1>4, <2>1, <2>2, <2>5, <2>6, <2>7, <2>8, <2>10, <2>11, InsertStep, CommitPostStep,
       CommitStep DEF Handler
<1> QED
  BY <1>1, <1>2, <1>3, <1>4 DEF Next

-----------------------------------------------------------------------------
(* The invariant holds in every reachable state. *)
THEOREM Invariance == Spec => []Inv
<1>1. Inv /\ [Next]_vars => Inv'
  BY TypeStep, KeptStep DEF Inv, Kept
<1> QED
  BY InitInv, <1>1, PTL DEF Spec

(* The types of Intake hold for any number of workers and rows. *)
THEOREM IntakeTypeOK == Spec => []TypeOK
<1>1. Inv => TypeOK
  BY DEF Inv
<1> QED
  BY Invariance, <1>1, PTL

(* A form makes one request, and every answer to it leads there. *)
THEOREM IntakeOneRequestPerForm == Spec => []OneRequestPerForm
<1>1. Inv => OneRequestPerForm
  BY DEF Inv
<1> QED
  BY Invariance, <1>1, PTL

(* A client's edit changes no request that has been sent. *)
THEOREM IntakeClientEditsStayBeforeSending == Spec => ClientEditsStayBeforeSending
<1>1. Inv => \A w \in Workers : txn[w].op = "edit" =>
        request[txn[w].request].status = "pending_review"
  BY DEF Inv, EditsAreAlone
<1>2. Inv /\ [Next]_vars =>
        [\A w \in Workers, r \in Requests :
            /\ txn[w].op = "edit" /\ txn[w].request = r /\ txn'[w].op = "idle"
            /\ Content(request'[r]) # Content(request[r])
            => request[r].status = "pending_review"]_vars
  BY <1>1
<1> QED
  BY Invariance, <1>2, PTL DEF Spec, ClientEditsStayBeforeSending
=============================================================================
