-------------------------------- MODULE Team --------------------------------
(***************************************************************************)
(* Who belongs to a client company: sign-up (auth.py), the company's own   *)
(* administration of its staff (client/team.py) and the platform's         *)
(* administration of accounts (admin.py, user_admin.py).  One company: who  *)
(* founds or joins another one stays outside, and is not followed there.    *)
(*                                                                         *)
(* No handler here locks what it reads.  Each loads its rows, decides, and *)
(* at its commit writes the columns it changed; what the database refuses  *)
(* there (a unique column, a foreign key, an UPDATE that finds no row) is a *)
(* commit that is not enabled, and the request ends in Abort.              *)
(***************************************************************************)
EXTENDS FiniteSets

CONSTANTS
    Workers,      \* concurrent requests
    Clients,      \* people who may get an account; one stands for its e-mail too
    Supers,       \* super administrators
    Rows,         \* company_employees rows that can be made
    None,
    Same          \* stands for a column that an UPDATE leaves alone

ASSUME TeamAssumption ==
    /\ Supers # {} /\ Clients \cap Supers = {} /\ None \notin Clients \cup Supers \cup Rows
    /\ Same \notin BOOLEAN /\ Same \notin {"none", "here", "gone"}
    /\ Same \notin Clients \cup Supers \cup {None}

VARIABLES
    company,      \* the companies row with the SIRET of this company
    user,         \* users
    row,          \* company_employees
    txn           \* the handler each worker runs

vars == <<company, user, row, txn>>

-----------------------------------------------------------------------------
People == Clients \cup Supers

(* rows are made once and deleted once: an identifier never comes back *)
Life == {"none", "here", "gone"}

(* in: company_id is this company.  The status is followed of members only: *)
(* it is read of nobody else, and nobody comes back to the company with it. *)
User == [life : Life, status : {"unset", "pending", "active", "rejected"},
         role : {"client_user", "client_admin", "caterer", "super_admin"},
         in : BOOLEAN]
NoUser == [life |-> "none", status |-> "unset", role |-> "client_user", in |-> FALSE]

(* a wrong variant: the two columns of an account are taken for each other *)
MemberSwapped(status, role) ==
    [life |-> "here", status |-> role, role |-> status, in |-> TRUE]

Member(status, role) == [life |-> "here", status |-> status, role |-> role, in |-> TRUE]

Row == [life : Life, email : People \cup {None}, user : People \cup {None},
        invited : BOOLEAN]
NoRow == [life |-> "none", email |-> None, user |-> None, invited |-> FALSE]

(* what is written to a row: only the columns that the handler changed *)
Update == [life : Life \cup {Same}, email : People \cup {None, Same},
           user : People \cup {None, Same}, invited : BOOLEAN \cup {Same}]
NoUpdate == [life |-> Same, email |-> Same, user |-> Same, invited |-> Same]

Changes(seen, want) == [c \in DOMAIN seen |-> IF want[c] = seen[c] THEN Same ELSE want[c]]
Written(now, sets) == [c \in DOMAIN now |-> IF sets[c] = Same THEN now[c] ELSE sets[c]]

Ops == {"found", "join", "accept_invite", "create", "change", "delete", "approve",
        "reject", "delete_user", "become_client"}
Txn == [pc : {"idle", "loaded", "linking"}, op : Ops \cup {"none"},
        actor : People \cup {None}, person : People \cup {None},
        in : BOOLEAN,                               \* it was a member's when loaded
        row : Rows \cup {None},
        sets : Update]                              \* written to the row
Idle == [pc |-> "idle", op |-> "none", actor |-> None, person |-> None, in |-> FALSE,
         row |-> None, sets |-> NoUpdate]

Here(x) == x.life = "here"
Active(u) == Here(u) /\ u.status = "active" /\ u.in

(* the request comes from a signed-in administrator of the company *)
Administrator(a) == Active(user[a]) /\ user[a].role = "client_admin"

Change(r, sets) == [Idle EXCEPT !.op = "change", !.row = r, !.sets = sets]

(* what a decision writes, which is nothing followed once they have left *)
Decided(p, status) == [user EXCEPT ![p].status = IF user[p].in THEN status ELSE @]

(* approve has flushed its UPDATE of the account: other writers wait *)
Holds(v, p) == txn[v].pc = "linking" /\ txn[v].person = p
UserFree(w, p) == \A v \in Workers \ {w} : ~ Holds(v, p)

Load(w, t) ==
    /\ txn[w].pc = "idle"
    /\ txn' = [txn EXCEPT ![w] = [t EXCEPT !.pc = "loaded"]]
    /\ UNCHANGED <<company, user, row>>

Runs(w, op) == txn[w].pc = "loaded" /\ txn[w].op = op
Done(w) == txn' = [txn EXCEPT ![w] = Idle]

Init ==
    /\ company = "none"
    /\ user = [p \in People |-> IF p \in Supers
                   THEN [NoUser EXCEPT !.life = "here", !.role = "super_admin"] ELSE NoUser]
    /\ row = [r \in Rows |-> NoRow]
    /\ txn = [w \in Workers |-> Idle]

-----------------------------------------------------------------------------
(* auth.py *)

(* signup: no account has the address, no company the SIRET *)
SignupFound(w, p) ==
    /\ user[p].life = "none" /\ company = "none"
    /\ Load(w, [Idle EXCEPT !.op = "found", !.person = p])

(* an INSERT takes a new identifier *)
InsertRow(new) ==
    \E r \in Rows : row[r].life = "none" /\ row' = [row EXCEPT ![r] = new]

CommitFound(w) ==
    /\ Runs(w, "found")
    /\ user[txn[w].person].life = "none" /\ company = "none"    \* both unique
    /\ company' = "here"
    /\ user' = [user EXCEPT ![txn[w].person] = Member("active", "client_admin")]
    /\ InsertRow([NoRow EXCEPT !.life = "here", !.email = txn[w].person,
                               !.user = txn[w].person])
    /\ Done(w)

(* signup: a company has the SIRET; its administrator is asked *)
SignupJoin(w, p) ==
    /\ user[p].life = "none" /\ company = "here"
    /\ Load(w, [Idle EXCEPT !.op = "join", !.person = p])

(* a wrong variant: users.company_id without its foreign key *)
CompanyNotReferenced == TRUE

(* the foreign key of users.company_id *)
CompanyReferenced == company = "here"

CommitJoin(w) ==
    /\ Runs(w, "join")
    /\ user[txn[w].person].life = "none" /\ CompanyReferenced
    /\ user' = [user EXCEPT ![txn[w].person] = Member("pending", "client_user")]
    /\ Done(w) /\ UNCHANGED <<company, row>>

(* signup_invite: _resolve_invite finds the row, no account has its address *)
AcceptInvite(w, r) ==
    LET e == row[r] IN
    /\ Here(e) /\ e.invited /\ e.user = None
    /\ user[e.email].life = "none"
    /\ Load(w, [Idle EXCEPT !.op = "accept_invite", !.person = e.email, !.row = r,
                            !.sets = [NoUpdate EXCEPT !.user = e.email, !.invited = FALSE]])

(* signup of a caterer, in no company: the unique address decides as its    *)
(* check did                                                                *)
SignupCaterer(p) ==
    /\ user[p].life = "none"
    /\ user' = [user EXCEPT ![p] = [NoUser EXCEPT !.life = "here", !.role = "caterer"]]
    /\ UNCHANGED <<company, row, txn>>

(* a wrong variant: the account is committed before its row is written *)
RowNotMatched(w) == TRUE

(* an UPDATE that matches no row raises, and the transaction rolls back;    *)
(* one that changes nothing is not sent                                     *)
RowMatched(w) == txn[w].sets = NoUpdate \/ Here(row[txn[w].row])

WriteRow(w) ==
    LET r == txn[w].row IN
    row' = [row EXCEPT ![r] = Written(row[r], txn[w].sets)]

CommitInvite(w) ==
    /\ Runs(w, "accept_invite")
    /\ user[txn[w].person].life = "none" /\ RowMatched(w)
    /\ user' = [user EXCEPT ![txn[w].person] = Member("active", "client_user")]
    /\ WriteRow(w)
    /\ Done(w) /\ UNCHANGED company

-----------------------------------------------------------------------------
(* client/team.py: the handlers of an administrator of the company *)

(* no colleague has this address yet *)
EmployeeCreate(w, e) ==
    /\ \E a \in Clients : Administrator(a)
    /\ ~ \E q \in Rows : Here(row[q]) /\ row[q].email = e
    /\ Load(w, [Idle EXCEPT !.op = "create",
          !.sets = [life |-> "here", email |-> e, user |-> None, invited |-> TRUE]])

CommitCreate(w) ==
    /\ Runs(w, "create")
    /\ CompanyReferenced
    /\ InsertRow(txn[w].sets)
    /\ Done(w) /\ UNCHANGED <<company, user>>

(* A new address ends the invitation of somebody who has no account yet. *)
EmployeeEdit(w, r, e) ==
    /\ \E a \in Clients : Administrator(a)
    /\ Here(row[r])
    /\ e # row[r].email
    /\ Load(w, Change(r, Changes(row[r], [row[r] EXCEPT !.email = e,
                                                 !.invited = @ /\ row[r].user # None])))

EmployeeInvite(w, r) ==
    /\ \E a \in Clients : Administrator(a)
    /\ Here(row[r]) /\ row[r].user = None
    /\ Load(w, Change(r, [NoUpdate EXCEPT !.invited = TRUE]))    \* the new token always differs

InviteRevoke(w, r) ==
    /\ \E a \in Clients : Administrator(a)
    /\ Here(row[r]) /\ row[r].invited
    /\ Load(w, Change(r, [NoUpdate EXCEPT !.invited = FALSE]))

CommitRow(w) ==
    /\ Runs(w, "change")
    /\ RowMatched(w)
    /\ WriteRow(w)
    /\ Done(w) /\ UNCHANGED <<company, user>>

(* One does not remove oneself; an account is removed with its row while it *)
(* belongs to the company.                                                  *)
EmployeeDelete(w, r) ==
    LET p == row[r].user IN
    /\ \E a \in Clients : Administrator(a) /\ a # p
    /\ Here(row[r])
    /\ Load(w, IF p # None /\ user[p].in
               THEN [Idle EXCEPT !.op = "delete", !.row = r, !.person = p]
               ELSE [Idle EXCEPT !.op = "delete", !.row = r])

(* a DELETE that matches no row is only logged, an UPDATE is not *)
CommitDelete(w) ==
    LET p == txn[w].person IN
    /\ Runs(w, "delete")
    /\ IF p # None
       THEN /\ Here(user[p]) /\ UserFree(w, p)
            /\ user' = [user EXCEPT ![p].status = "unset", ![p].in = FALSE]
       ELSE UNCHANGED user
    /\ row' = [row EXCEPT ![txn[w].row] = [NoRow EXCEPT !.life = "gone"]]
    /\ Done(w) /\ UNCHANGED company

(* get_pending_user *)
Pending(p) == Here(user[p]) /\ user[p].status = "pending" /\ user[p].in

TeamApprove(w, p) ==
    /\ \E a \in Clients : Administrator(a)
    /\ Pending(p)
    /\ Load(w, [Idle EXCEPT !.op = "approve", !.person = p])

(* The query for a row of the person flushes the new status first, which    *)
(* locks the account; then it returns any row with that account or address. *)
LinkRow(w) ==
    LET p == txn[w].person
        Match == {r \in Rows : Here(row[r]) /\ (row[r].user = p \/ row[r].email = p)} IN
    /\ Runs(w, "approve")
    /\ Here(user[p]) /\ UserFree(w, p)
    /\ \/ \E r \in Match :
            txn' = [txn EXCEPT ![w].pc = "linking", ![w].row = r,
                       ![w].sets = Changes(row[r], [row[r] EXCEPT !.user = p, !.email = p,
                                                                  !.invited = FALSE])]
       \/ /\ Match = {}
          /\ txn' = [txn EXCEPT ![w].pc = "linking",
                         ![w].sets = [NoRow EXCEPT !.life = "here", !.email = p, !.user = p]]
    /\ UNCHANGED <<company, user, row>>

CommitApprove(w) ==
    /\ txn[w].pc = "linking"
    /\ IF txn[w].row # None THEN RowMatched(w) /\ WriteRow(w)
       ELSE CompanyReferenced /\ InsertRow(txn[w].sets)
    /\ user' = Decided(txn[w].person, "active")
    /\ Done(w) /\ UNCHANGED company

TeamReject(w, p) ==
    /\ \E a \in Clients : Administrator(a)
    /\ Pending(p)
    /\ Load(w, [Idle EXCEPT !.op = "reject", !.person = p])

CommitReject(w) ==
    /\ Runs(w, "reject")
    /\ Here(user[txn[w].person]) /\ UserFree(w, txn[w].person)
    /\ user' = Decided(txn[w].person, "rejected")
    /\ Done(w) /\ UNCHANGED <<company, row>>

-----------------------------------------------------------------------------
(* admin.py and user_admin.py: the handlers of a super administrator *)

IsSuper(s) == Here(user[s]) /\ user[s].role = "super_admin"

(* _delete_company_if_orphan, given the accounts that are left: nobody is,  *)
(* and the company has made no request.                                     *)
DropCompany(left) ==
    /\ company = "here" /\ ~ \E p \in People : Here(left[p]) /\ left[p].in
    /\ company' = "gone"
    /\ row' = [r \in Rows |-> IF Here(row[r]) THEN [NoRow EXCEPT !.life = "gone"]
                               ELSE row[r]]

(* Somebody is left, or it has made requests, which are not modelled. *)
KeepCompany(kept) ==
    /\ row' = [r \in Rows |-> IF r \in kept THEN row[r] ELSE [NoRow EXCEPT !.life = "gone"]]
    /\ UNCHANGED company

CleanUp(left, kept) == DropCompany(left) \/ KeepCompany(kept)

(* an account that was not in the company leaves another one, or none *)
Leave(in, left, kept) == IF in THEN CleanUp(left, kept) ELSE KeepCompany(kept)

(* can_delete_user: somebody else, and another super administrator is left  *)
UserDelete(w, s, p) ==
    /\ IsSuper(s) /\ Here(user[p]) /\ p # s
    /\ user[p].role = "super_admin" => \E o \in Supers \ {p} : IsSuper(o)
    /\ Load(w, [Idle EXCEPT !.op = "delete_user", !.actor = s, !.person = p,
                            !.in = user[p].in])

(* a wrong variant: the audit row names its author without referring to it *)
ActorNotReferenced(s) == TRUE

(* The audit row is inserted first and refers to its author: if the author  *)
(* has been deleted meanwhile the database refuses the row.                 *)
ActorReferenced(s) == Here(user[s])

CommitUserDelete(w) ==
    LET p == txn[w].person
        left == [user EXCEPT ![p] = [NoUser EXCEPT !.life = "gone"]] IN
    /\ Runs(w, "delete_user")
    /\ ActorReferenced(txn[w].actor) /\ Here(user[p]) /\ UserFree(w, p)
    /\ user' = left
    /\ Leave(txn[w].in, left, {r \in Rows : row[r].user # p})
    /\ Done(w)

(* user_role_change between the two client roles *)
RoleChange(p, role) ==
    /\ \E s \in Supers : IsSuper(s)
    /\ Here(user[p]) /\ user[p].role \in {"client_user", "client_admin"} \ {role}
    /\ ~ \E w \in Workers : Holds(w, p)
    /\ user' = [user EXCEPT ![p].role = role]
    /\ UNCHANGED <<company, row, txn>>

(* user_role_change to caterer: the account leaves the company *)
BecomeCaterer(p) ==
    LET left == [user EXCEPT ![p].role = "caterer", ![p].status = "unset", ![p].in = FALSE] IN
    /\ \E s \in Supers : IsSuper(s)
    /\ Here(user[p]) /\ user[p].role \in {"client_user", "client_admin"}
    /\ ~ \E w \in Workers : Holds(w, p)
    /\ user' = left
    /\ Leave(user[p].in, left, Rows)
    /\ UNCHANGED txn

(* user_role_change of a caterer, who founds this company *)
ClientLoad(w, s, p) ==
    /\ IsSuper(s) /\ Here(user[p]) /\ user[p].role = "caterer" /\ company = "none"
    /\ Load(w, [Idle EXCEPT !.op = "become_client", !.actor = s, !.person = p])

(* Only the company and the account are written: no staff row is made. *)
CommitClient(w) ==
    LET p == txn[w].person IN
    /\ Runs(w, "become_client")
    /\ ActorReferenced(txn[w].actor) /\ Here(user[p]) /\ UserFree(w, p)
    /\ company = "none" /\ company' = "here"                     \* unique
    /\ \E role \in {"client_user", "client_admin"} :
          user' = [user EXCEPT ![p] = Member("active", role)]
    /\ Done(w) /\ UNCHANGED row

(* a form refused, a write the database refuses, a worker that dies *)
Abort(w) ==
    /\ txn[w].pc # "idle"
    /\ Done(w) /\ UNCHANGED <<company, user, row>>

Step(w) ==
    \/ \E p \in Clients :
          \/ SignupFound(w, p) \/ SignupJoin(w, p)
          \/ TeamApprove(w, p) \/ TeamReject(w, p) \/ EmployeeCreate(w, p)
    \/ \E r \in Rows :
          \/ AcceptInvite(w, r) \/ EmployeeInvite(w, r) \/ InviteRevoke(w, r)
          \/ EmployeeDelete(w, r)
          \/ \E e \in Clients : EmployeeEdit(w, r, e)
    \/ \E s \in Supers, p \in People : UserDelete(w, s, p)
    \/ \E s \in Supers, p \in Clients : ClientLoad(w, s, p)
    \/ LinkRow(w)
    \/ CommitFound(w) \/ CommitJoin(w) \/ CommitInvite(w)
    \/ CommitCreate(w) \/ CommitRow(w) \/ CommitDelete(w) \/ CommitApprove(w)
    \/ CommitReject(w) \/ CommitUserDelete(w) \/ CommitClient(w) \/ Abort(w)

Next ==
    \/ \E p \in Clients : \/ SignupCaterer(p) \/ BecomeCaterer(p)
                          \/ \E role \in {"client_user", "client_admin"} : RoleChange(p, role)
    \/ \E w \in Workers : Step(w)

Spec == Init /\ [][Next]_vars

-----------------------------------------------------------------------------
(* Every variable has its type. *)
TypeOK ==
    /\ company \in Life
    /\ user \in [People -> User] /\ row \in [Rows -> Row]
    /\ txn \in [Workers -> Txn]

(* Two super administrators who delete each other at the same time leave    *)
(* one: each sees another one left, but the audit row of the second names   *)
(* an author who no longer exists.                                          *)
OneSuperAdminLeft == \E s \in Supers : IsSuper(s)

(* Whatever sign-ups, rows and deletions run at once, nobody belongs to a   *)
(* company that was deleted and no row is left of one.                      *)
NothingIsOrphaned ==
    /\ \A p \in People : Here(user[p]) /\ user[p].in => company = "here"
    /\ \A r \in Rows : Here(row[r]) => company = "here"

(* Some approval under way has found the person in the staff list. *)
FoundListed(p) ==
    \E w \in Workers : Holds(w, p) /\ txn[w].row # None /\ txn[w].sets.user = Same

(* Whoever becomes an active member is at that moment in the staff list,    *)
(* where the administrator can remove them: also when their row is deleted  *)
(* or edited between the opening of the form and the commit.  The code      *)
(* leaves two openings, and no other.  Of two approvals with a rejection    *)
(* between them, the second finds the row of the first and may lose it to a *)
(* deletion.  And the caterer whom a change of role makes the founder of    *)
(* the company gets no row.                                                 *)
ActivatedIsListed ==
    [][\A p \in People : Active(user[p])' /\ ~ Active(user[p]) =>
          \/ \E r \in Rows : Here(row'[r]) /\ row'[r].user = p
          \/ user[p].status = "rejected" /\ FoundListed(p)
          \/ Here(user[p]) /\ company = "none"]_vars
=============================================================================
