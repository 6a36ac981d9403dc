------------------------------- MODULE Intake -------------------------------
(***************************************************************************)
(* How a request comes in and is addressed (client/requests.py, admin.py,  *)
(* matching.py, geocoding.py): the form and its token, the edits of client *)
(* and staff, the approval and its fan-out, the caterers' profiles it is   *)
(* computed from.  What becomes of a transmitted request is QuoteWorkflow. *)
(*                                                                         *)
(* Handlers read, geocode (up to five seconds per address) and commit.     *)
(* SQLAlchemy writes the columns that differ from what was loaded.         *)
(* A place stands for an address, for its coordinates and for what lies    *)
(* within a delivery radius of it.                                         *)
(***************************************************************************)
CONSTANTS
    Workers,    \* concurrent requests of browsers
    Requests,   \* pool of QuoteRequest primary keys
    Caterers,
    Tokens,     \* form_token of the forms handed out
    Places,
    Meals,
    Forms,      \* what clients and staff type: meal, address, coordinates
    Profiles,   \* what caterers type: meals, address, radius or none
    None

ASSUME IntakeAssumption ==
    /\ None \notin Requests \cup Caterers \cup Tokens \cup Places \cup Meals
    /\ Forms \subseteq [meal : Meals \cup {None}, address : Places \cup {None},
                        at : Places \cup {None}]
    /\ Profiles \subseteq [meals : SUBSET Meals, address : Places \cup {None},
                           limited : BOOLEAN]

VARIABLES
    request,    \* the QuoteRequest rows
    asked,      \* the caterers with a QuoteRequestCaterer row, by request
    caterer,    \* the Caterer rows
    answers,    \* history: the request each form was answered with, None for an error
    txn         \* what each worker has read and will write

vars == <<request, asked, caterer, answers, txn>>

-----------------------------------------------------------------------------
Status == {"absent", "pending_review", "sent_to_caterers", "cancelled"}

Request == [status : Status, token : Tokens \cup {None}, reviewed : BOOLEAN,
            meal : Meals \cup {None}, address : Places \cup {None},
            at : Places \cup {None}]
Absent == [status |-> "absent", token |-> None, reviewed |-> FALSE,
           meal |-> None, address |-> None, at |-> None]

Caterer == [validated : BOOLEAN, meals : SUBSET Meals, address : Places \cup {None},
            limited : BOOLEAN, at : Places \cup {None}]

Txn == [op : {"idle", "post", "inserted", "edit", "open"}, lock : BOOLEAN,
        request : Requests \cup {None}, loaded : Request, new : Request,
        asks : SUBSET Caterers,
        was : [Caterers -> Caterer] \cup {None}, now : [Caterers -> Caterer] \cup {None}]
Idle == [op |-> "idle", lock |-> FALSE, request |-> None, loaded |-> Absent, new |-> Absent,
         asks |-> {}, was |-> None, now |-> None]

Written == {r \in Requests : request[r].status # "absent"}

(* geocode_address: no answer is found for some addresses, some of the time *)
Geocode(address, found) == IF address \in found THEN address ELSE None

(* the coordinates of a row that has none yet *)
Located(row, found) ==
    IF row.at = None THEN [row EXCEPT !.at = Geocode(row.address, found)] ELSE row

(* ... and of a row whose address has changed: they stay if none are found *)
Relocated(old, row, found) ==
    IF row.address # old.address /\ Geocode(row.address, found) # None
    THEN [row EXCEPT !.at = row.address]
    ELSE row

(* the columns that a commit writes over the row as it is now *)
Merged(old, new, row) == [f \in DOMAIN row |-> IF new[f] # old[f] THEN new[f] ELSE row[f]]

RowLocked(r) == \E v \in Workers : txn[v].lock /\ txn[v].request = r

Init ==
    /\ request = [r \in Requests |-> Absent]
    /\ asked = [r \in Requests |-> {}]
    /\ \E profile \in [Caterers -> Profiles] :
          caterer = [c \in Caterers |->
                       [validated |-> TRUE, meals |-> profile[c].meals,
                        address |-> profile[c].address, limited |-> profile[c].limited,
                        at |-> None]]
    /\ answers = [k \in Tokens |-> {}]
    /\ txn = [w \in Workers |-> Idle]

-----------------------------------------------------------------------------
(* matching.py: what is not known of the caterer or of the request excludes *)
(* nobody                                                                   *)
OffersMealType(c, q) == q.meal = None \/ c.meals = {} \/ q.meal \in c.meals

CoversEventLocation(c, q) == ~ c.limited \/ c.at = None \/ q.at = None \/ c.at = q.at

IsCatererEligible(c, q) == OffersMealType(c, q) /\ CoversEventLocation(c, q)

-----------------------------------------------------------------------------
(* The form of a new request *)

OfToken(k) == {r \in Written : k # None /\ request[r].token = k}

Answer(k, rs) ==
    answers' = [t \in Tokens |-> IF t = k THEN answers[t] \cup rs ELSE answers[t]]

(* _resolve_target_caterer: the caterer the form was made for, if it is     *)
(* validated when the form comes back                                       *)
ResolveTarget(c) == IF c # None /\ caterer[c].validated THEN c ELSE None

(* The form made for a caterer has the compare mode off, the other one on:  *)
(* a form whose caterer is not validated any more is sent to nobody.        *)
RequestInDraft(form, k, c) ==    \* a wrong variant: the column's default
    [status |-> "draft", token |-> k, reviewed |-> c = None,
     meal |-> form.meal, address |-> form.address, at |-> form.at]

RequestOf(form, k, c) ==
    [status |-> IF c = None THEN "pending_review" ELSE "sent_to_caterers",
     token |-> k, reviewed |-> c = None,
     meal |-> form.meal, address |-> form.address, at |-> form.at]

(* requests_new_post: no request has the token of the form yet.  A meal the *)
(* target does not offer is refused.                                        *)
RequestsNewPost(w, form, k, c) ==
    /\ txn[w].op = "idle" /\ OfToken(k) = {}
    /\ LET target == ResolveTarget(c)
       IN  /\ target # None /\ form.meal # None => form.meal \in caterer[target].meals
           /\ txn' = [txn EXCEPT ![w] = [Idle EXCEPT !.op = "post",
                          !.new = RequestOf(form, k, c),
                          !.asks = {target} \ {None}]]
    /\ UNCHANGED <<request, asked, caterer, answers>>

(* ... or one has: the form was sent before *)
AlreadySent(k) ==
    /\ OfToken(k) # {}
    /\ Answer(k, OfToken(k))
    /\ UNCHANGED <<request, asked, caterer, txn>>

TokenUnchecked(w) == FALSE    \* a wrong variant: no unique constraint

(* submission_token is unique; an INSERT waits for the one of another       *)
(* worker that has the same token                                           *)
TokenTaken(w) == OfToken(txn[w].new.token) # {}

TokenFree(w) ==
    txn[w].new.token # None => \A v \in Workers \ {w} :
        txn[v].op # "inserted" \/ txn[v].new.token # txn[w].new.token

InUse == Written \cup {txn[v].request : v \in Workers}

InsertRequest(w, r, found) ==
    /\ txn[w].op = "post" /\ TokenFree(w) /\ ~ TokenTaken(w)
    /\ r \notin InUse
    /\ txn' = [txn EXCEPT ![w].op = "inserted", ![w].request = r,
                          ![w].new = Located(txn[w].new, found)]
    /\ UNCHANGED <<request, asked, caterer, answers>>

(* IntegrityError: the request of the same token is looked up again *)
InsertRefused(w) ==
    /\ txn[w].op = "post" /\ TokenFree(w) /\ TokenTaken(w)
    /\ LET k == txn[w].new.token
       IN  Answer(k, IF OfToken(k) = {} THEN {None} ELSE OfToken(k))
    /\ txn' = [txn EXCEPT ![w] = Idle]
    /\ UNCHANGED <<request, asked, caterer>>

(* the request and the row of its target appear together *)
CommitPost(w) ==
    /\ txn[w].op = "inserted"
    /\ LET r == txn[w].request
       IN  /\ request' = [request EXCEPT ![r] = txn[w].new]
           /\ asked' = [asked EXCEPT ![r] = txn[w].asks]
           /\ Answer(txn[w].new.token, {r})
    /\ txn' = [txn EXCEPT ![w] = Idle]
    /\ UNCHANGED caterer

-----------------------------------------------------------------------------
(* Edits and qualification *)

Begin(w, t) ==
    /\ txn[w].op = "idle"
    /\ txn' = [txn EXCEPT ![w] = t]
    /\ UNCHANGED <<request, asked, caterer, answers>>

Change(r, new) ==
    [Idle EXCEPT !.op = "open", !.request = r, !.loaded = request[r], !.new = new]

Typed(r, form) ==
    [request[r] EXCEPT !.meal = form.meal, !.address = form.address]

ReadUnlocked == FALSE    \* a wrong variant: get_company_request without the lock

ReadForUpdate == TRUE

(* request_edit_post: the row is read FOR UPDATE, and its coordinates are   *)
(* those of the form                                                        *)
RequestEditPost(w, r, form) ==
    /\ request[r].status = "pending_review" /\ ~ RowLocked(r)
    /\ Begin(w, [Change(r, [Typed(r, form) EXCEPT !.at = form.at])
                   EXCEPT !.op = "edit", !.lock = ReadForUpdate])

(* qualification_edit: no lock; the address is geocoded if it has changed *)
QualificationEdit(w, r, form, found) ==
    /\ request[r].status \in {"pending_review", "sent_to_caterers"}
    /\ Begin(w, Change(r, Relocated(request[r], Typed(r, form), found)))

(* approve_quote_request: no lock and no test of the status.  Coordinates   *)
(* that are missing are looked up first.                                    *)
ApproveQuoteRequest(w, r, found) ==
    /\ request[r].reviewed
    /\ LET validated == {c \in Caterers : caterer[c].validated}
           now == [c \in Caterers |-> IF c \in validated THEN Located(caterer[c], found)
                                       ELSE caterer[c]]
           q == Located(request[r], found)
           targets == {c \in validated : IsCatererEligible(now[c], q)}
       IN  Begin(w, [Change(r, IF targets = {} THEN q
                                ELSE [q EXCEPT !.status = "sent_to_caterers"])
                       EXCEPT !.asks = targets, !.was = caterer, !.now = now])

(* reject_quote_request *)
RejectQuoteRequest(w, r) ==
    /\ request[r].reviewed
    /\ Begin(w, Change(r, [request[r] EXCEPT !.status = "cancelled"]))

(* caterer_validate and caterer_invalidate *)
ValidateCaterer(c, validated) ==
    /\ caterer' = [caterer EXCEPT ![c].validated = validated]
    /\ UNCHANGED <<request, asked, answers, txn>>

(* profile_save: what the form leaves empty stays as it was, but for the    *)
(* meals                                                                    *)
ProfileSave(w, c, profile, found) ==
    LET old == caterer[c]
        typed == [old EXCEPT !.meals = profile.meals,
                    !.address = IF profile.address = None THEN @ ELSE profile.address,
                    !.limited = profile.limited]
        new == Located(Relocated(old, typed, found), found)
    IN  Begin(w, [Idle EXCEPT !.op = "open", !.was = caterer,
                              !.now = [caterer EXCEPT ![c] = new]])

(* db.commit() of an edit, an approval, a refusal or a profile *)
Commit(w) ==
    LET t == txn[w]
    IN  /\ t.op \in {"edit", "open"}
        /\ ~ t.lock /\ (t.loaded # t.new \/ t.asks # {}) => ~ RowLocked(t.request)
        /\ request' = [r \in Requests |-> IF r = t.request
                         THEN Merged(t.loaded, t.new, request[r]) ELSE request[r]]
        /\ asked' = [r \in Requests |-> IF r = t.request THEN asked[r] \cup t.asks
                                         ELSE asked[r]]
        /\ caterer' = IF t.now = None THEN caterer
                      ELSE [c \in Caterers |-> Merged(t.was[c], t.now[c], caterer[c])]
        /\ txn' = [txn EXCEPT ![w] = Idle]
        /\ UNCHANGED answers

(* A form refused, a worker that dies, an address the geocoder chokes on. *)
Abort(w) ==
    /\ txn[w].op # "idle"
    /\ txn' = [txn EXCEPT ![w] = Idle]
    /\ UNCHANGED <<request, asked, caterer, answers>>

Handler(w) ==
    \/ \E form \in Forms, k \in Tokens \cup {None}, c \in Caterers \cup {None} :
          RequestsNewPost(w, form, k, c)
    \/ \E r \in Written :
          \/ \E form \in Forms : RequestEditPost(w, r, form)
          \/ \E form \in Forms, found \in SUBSET Places :
                QualificationEdit(w, r, form, found)
          \/ \E found \in SUBSET Places : ApproveQuoteRequest(w, r, found)
          \/ RejectQuoteRequest(w, r)
    \/ \E c \in Caterers, profile \in Profiles, found \in SUBSET Places :
          ProfileSave(w, c, profile, found)
    \/ \E r \in Requests, found \in SUBSET Places : InsertRequest(w, r, found)
    \/ InsertRefused(w) \/ CommitPost(w) \/ Commit(w) \/ Abort(w)

Next ==
    \/ \E w \in Workers : Handler(w)
    \/ \E k \in Tokens : AlreadySent(k)
    \/ \E c \in Caterers, validated \in BOOLEAN : ValidateCaterer(c, validated)

Spec == Init /\ [][Next]_vars

-----------------------------------------------------------------------------
(* Every variable has its type. *)
TypeOK ==
    /\ request \in [Requests -> Request]
    /\ asked \in [Requests -> SUBSET Caterers]
    /\ caterer \in [Caterers -> Caterer]
    /\ answers \in [Tokens -> SUBSET (Requests \cup {None})]
    /\ txn \in [Workers -> Txn]

(* A form sent twice, or twice at once, makes one request and every answer  *)
(* leads to it; none of its submissions ends in an error.                   *)
OneRequestPerForm ==
    \A k \in Tokens :
        /\ \A q, r \in OfToken(k) : q = r
        /\ answers[k] \subseteq OfToken(k)

(* What the request asks for, and where. *)
Content(q) == <<q.meal, q.address, q.at>>

(* A client's edit that was accepted while the request waited for its       *)
(* review never changes a request the caterers have received meanwhile.     *)
ClientEditsStayBeforeSending ==
    [][\A w \in Workers, r \in Requests :
          /\ txn[w].op = "edit" /\ txn[w].request = r /\ txn'[w].op = "idle"
          /\ Content(request'[r]) # Content(request[r])
          => request[r].status = "pending_review"]_vars

(* profile.py:150-153: old coordinates are kept when a new address is not   *)
(* found, and the matching then "falls into tolerant mode": an approval     *)
(* leaves out no caterer for being far from a place that it has left.       *)
OldCoordinatesExcludeNobody ==
    [][\A w \in Workers :
          txn[w].op = "idle" /\ txn'[w].op = "open" /\ txn'[w].request # None
            /\ txn'[w].now # None
          => \A c \in Caterers :
                LET now == txn'[w].now[c]
                IN  now.validated /\ now.address # now.at /\ OffersMealType(now, txn'[w].new)
                    => c \in txn'[w].asks]_vars
=============================================================================
