----------------------------- MODULE TeamProofs -----------------------------
(***************************************************************************)
(* Proofs about Team, for any number of requests, clients, staff rows and  *)
(* super administrators.                                                   *)
(*                                                                         *)
(* The last super administrator stays because whoever deletes another one  *)
(* must still be there when the deletion commits: DeletersAreSupers.  What *)
(* is written late never revives a company or a row: Shape says of each    *)
(* pending transaction what it may write.  Whoever becomes active is in    *)
(* the staff list because a row never belongs to somebody who waits: Tied. *)
(* Only the caterer who founds a company by a change of role is not.       *)
(***************************************************************************)
EXTENDS Team, TLAPS

(* What a handler that is under way has loaded.  The rows it inserts are    *)
(* whole; the UPDATE of a row neither makes nor removes it; an invitation   *)
(* that is accepted always writes its row; a super administrator deletes    *)
(* somebody else, and changes the role of nobody like them.                 *)
Shape(t) ==
    /\ t.op = "create" => t.sets \in Row
    /\ t.op \in {"accept_invite", "change"} => t.row \in Rows /\ t.sets.life = Same
    /\ t.op = "accept_invite" => t.sets # NoUpdate
    /\ t.pc = "loaded" /\ t.op = "approve" => t.row = None
    /\ t.pc = "linking" /\ t.row = None => t.sets \in Row
    /\ t.pc = "linking" /\ t.row # None => t.row \in Rows /\ t.sets.life = Same
    /\ t.op = "delete_user" => t.actor \in Supers /\ t.person # t.actor
    /\ t.op = "become_client" => t.actor \in Supers /\ t.person \in Clients

(* A super administrator keeps the role as long as the account is there,    *)
(* and no account is made in the place of one.                              *)
SupersStay ==
    \A s \in Supers : user[s].life # "none" /\ (Here(user[s]) => IsSuper(s))

(* The person of an approval that is being written is there, and the        *)
(* approval makes a row theirs unless it found one that was.  The other     *)
(* handlers give a row to the person they make, to nobody, or leave it.     *)
Fits(t, users) ==
    /\ t.op = "create" => t.sets.user = None
    /\ t.op = "change" => t.sets.user = Same
    /\ t.op = "accept_invite" => t.sets.user = t.person
    /\ t.op = "approve" => t.person \in People
    /\ t.pc = "linking" =>
          /\ t.person \in People /\ Here(users[t.person])
          /\ t.sets.user \in {Same, t.person}
          /\ t.sets.user = Same => t.row # None /\ users[t.person].status # "pending"
          /\ t.row = None => t.sets.life = "here"

(* A staff row belongs to nobody who has no account yet or is waiting. *)
RowsAreMembers ==
    \A r \in Rows : Here(row[r]) /\ row[r].user # None =>
        user[row[r].user].life # "none" /\ user[row[r].user].status # "pending"

(* An approval being written holds the account. *)
OneLinker ==
    \A v, w \in Workers : v # w /\ txn[v].pc = "linking" /\ txn[w].pc = "linking" =>
        txn[v].person # txn[w].person

(* The members have a status, and nobody else. *)
MembersHaveStatus ==
    \A p \in People : IF user[p].in THEN user[p].status # "unset" ELSE user[p].status = "unset"

Tied ==
    /\ RowsAreMembers /\ OneLinker
    /\ MembersHaveStatus
    /\ \A w \in Workers : Fits(txn[w], user)

Inv ==
    /\ TypeOK /\ SupersStay /\ OneSuperAdminLeft /\ NothingIsOrphaned
    /\ \A w \in Workers : Shape(txn[w])

-----------------------------------------------------------------------------
(* The records of the module have their types. *)
LEMMA RecordsTyped ==
    /\ NoUser \in User /\ NoRow \in Row /\ NoUpdate \in Update /\ Idle \in Txn /\ Shape(Idle)
    /\ [NoUser EXCEPT !.life = "here", !.role = "caterer"] \in User
    /\ \A status \in {"unset", "pending", "active", "rejected"},
          role \in {"client_user", "client_admin"} : Member(status, role) \in User
BY TeamAssumption DEF NoUser, User, NoRow, Row, NoUpdate, Update, Idle, Txn, Shape, Member, Life

(* An update written to a row gives a row; it is there if it was, unless    *)
(* the update says so.                                                      *)
LEMMA WrittenTyped ==
    ASSUME NEW x \in Row, NEW s \in Update
    PROVE  /\ Written(x, s) \in Row
           /\ s.life = Same => Written(x, s).life = x.life
<1>1. DOMAIN x = {"life", "email", "user", "invited"}
  BY DEF Row
<1>2. Written(x, s) =
        [life |-> IF s.life = Same THEN x.life ELSE s.life,
         email |-> IF s.email = Same THEN x.email ELSE s.email,
         user |-> IF s.user = Same THEN x.user ELSE s.user,
         invited |-> IF s.invited = Same THEN x.invited ELSE s.invited]
  BY <1>1 DEF Written
<1>3. /\ (IF s.life = Same THEN x.life ELSE s.life) \in Life
      /\ (IF s.email = Same THEN x.email ELSE s.email) \in People \cup {None}
      /\ (IF s.user = Same THEN x.user ELSE s.user) \in People \cup {None}
  BY DEF Row, Update
<1>4. (IF s.invited = Same THEN x.invited ELSE s.invited) \in BOOLEAN
  <2>1. x.invited \in BOOLEAN /\ s.invited \in BOOLEAN \cup {Same}
    BY DEF Row, Update
  <2> QED BY <2>1, Zenon
<1> QED BY <1>2, <1>3, <1>4 DEF Row

(* The difference of two rows is an update, which leaves alone the column   *)
(* in which they agree.                                                     *)
LEMMA ChangesTyped ==
    ASSUME NEW x \in Row, NEW y \in Row, y.life = x.life
    PROVE  Changes(x, y) \in Update /\ Changes(x, y).life = Same
<1>1. DOMAIN x = {"life", "email", "user", "invited"}
  BY DEF Row
<1>2. Changes(x, y) =
        [life |-> IF y.life = x.life THEN Same ELSE y.life,
         email |-> IF y.email = x.email THEN Same ELSE y.email,
         user |-> IF y.user = x.user THEN Same ELSE y.user,
         invited |-> IF y.invited = x.invited THEN Same ELSE y.invited]
  BY <1>1 DEF Changes
<1>3. /\ (IF y.life = x.life THEN Same ELSE y.life) \in Life \cup {Same}
      /\ (IF y.email = x.email THEN Same ELSE y.email) \in People \cup {None, Same}
      /\ (IF y.user = x.user THEN Same ELSE y.user) \in People \cup {None, Same}
  BY DEF Row
<1>4. (IF y.invited = x.invited THEN Same ELSE y.invited) \in BOOLEAN \cup {Same}
  <2>1. y.invited \in BOOLEAN
    BY DEF Row
  <2> QED BY <2>1, Zenon
<1> QED BY <1>2, <1>3, <1>4 DEF Update

-----------------------------------------------------------------------------
(* Initially only the super administrators are there. *)
LEMMA InitInv == Init => Inv
<1> SUFFICES ASSUME Init PROVE Inv
  OBVIOUS
<1>1. TypeOK
  <2>1. \A p \in People : user[p] \in User
    BY DEF Init, NoUser, User, Life
  <2> QED BY <2>1, RecordsTyped DEF Init, TypeOK, Life
<1>2. \A s \in Supers : user[s].life = "here" /\ user[s].role = "super_admin"
  BY DEF Init, NoUser, People
<1>3. SupersStay /\ OneSuperAdminLeft
  BY <1>2, TeamAssumption DEF SupersStay, OneSuperAdminLeft, IsSuper, Here
<1>4. NothingIsOrphaned
  BY DEF Init, NothingIsOrphaned, NoUser, NoRow, Here
<1> QED BY <1>1, <1>3, <1>4, RecordsTyped DEF Init, Inv

(* A handler that loads what its transaction may hold changes nothing. *)
LEMMA LoadInv ==
    ASSUME Inv, NEW w \in Workers, NEW t \in Txn, Shape([t EXCEPT !.pc = "loaded"]), Load(w, t)
    PROVE  Inv'
<1>1. [t EXCEPT !.pc = "loaded"] \in Txn
  BY DEF Txn
<1>2. TypeOK'
  BY <1>1 DEF Inv, TypeOK, Load
<1>3. \A v \in Workers : Shape(txn[v])'
  BY DEF Inv, Load, TypeOK, Shape
<1> QED BY <1>2, <1>3 DEF Inv, Load, SupersStay, OneSuperAdminLeft, NothingIsOrphaned, IsSuper

(* A transaction that ends keeps the shape of the others. *)
LEMMA DoneShape ==
    ASSUME Inv, NEW w \in Workers, Done(w)
    PROVE  txn' \in [Workers -> Txn] /\ \A v \in Workers : Shape(txn[v])'
BY RecordsTyped DEF Inv, Done, TypeOK, Shape

(* An inserted row is new; the others stay. *)
LEMMA InsertRowTyped ==
    ASSUME Inv, NEW x \in Row, InsertRow(x), company' = "here"
    PROVE  row' \in [Rows -> Row] /\ \A r \in Rows : Here(row'[r]) => company' = "here"
BY DEF Inv, TypeOK, InsertRow

(* An update neither makes nor removes a row. *)
LEMMA WriteRowTyped ==
    ASSUME Inv, NEW w \in Workers, txn[w].sets.life = Same, WriteRow(w)
    PROVE  row' \in [Rows -> Row] /\ \A r \in Rows : Here(row'[r]) <=> Here(row[r])
<1>1. txn[w].sets \in Update
  BY DEF Inv, TypeOK, Txn
<1>2. \A r \in Rows : /\ Written(row[r], txn[w].sets) \in Row
                      /\ Written(row[r], txn[w].sets).life = row[r].life
  BY <1>1, WrittenTyped DEF Inv, TypeOK
<1> QED BY <1>2 DEF WriteRow, Inv, TypeOK, Here

(* A new account is not a super administrator's. *)
LEMMA MadeKeepsSupers ==
    ASSUME Inv, NEW p, user[p].life = "none", NEW u \in User, user' = [user EXCEPT ![p] = u]
    PROVE  /\ user' \in [People -> User] /\ SupersStay' /\ OneSuperAdminLeft'
           /\ \A q \in People : q # p => user'[q] = user[q]
<1>1. user' \in [People -> User] /\ \A q \in People : q # p => user'[q] = user[q]
  BY DEF Inv, TypeOK
<1>2. \A s \in Supers : s \in People /\ s # p
  BY DEF Inv, SupersStay, People
<1>3. \A s \in Supers : user'[s] = user[s]
  BY <1>1, <1>2
<1> QED BY <1>1, <1>3 DEF Inv, SupersStay, OneSuperAdminLeft, IsSuper

(* The account after its owner has left the company. *)
Left(u) == [u EXCEPT !.status = "unset", !.in = FALSE]

(* A decision changes the status of a member, and nothing else. *)
LEMMA DecidedValue ==
    ASSUME TypeOK, NEW p, NEW status, NEW q \in People
    PROVE  Decided(p, status)[q] = IF q = p /\ user[q].in THEN [user[q] EXCEPT !.status = status]
                                   ELSE user[q]
<1>1. user[q] \in User /\ q \in DOMAIN user
  BY DEF TypeOK
<1>2. Decided(p, status)[q] =
        IF q = p THEN [user[q] EXCEPT !.status = IF user[q].in THEN status ELSE user[q].status]
        ELSE user[q]
  BY <1>1 DEF Decided
<1>3. [user[q] EXCEPT !.status = user[q].status] = user[q]
  BY <1>1 DEF User
<1> QED BY <1>2, <1>3

(* An EXCEPT of two columns is one of the account. *)
LEMMA LeftValue ==
    ASSUME TypeOK, NEW p, NEW q \in People
    PROVE  [user EXCEPT ![p].status = "unset", ![p].in = FALSE][q] =
              IF q = p THEN Left(user[q]) ELSE user[q]
BY DEF TypeOK, Left

(* Neither does a change of status or of company concern the role. *)
LEMMA StatusKeepsSupers ==
    ASSUME Inv, NEW p, NEW status \in {"unset", "pending", "active", "rejected"},
           \/ user' = Decided(p, status)
           \/ user' = [user EXCEPT ![p].status = "unset", ![p].in = FALSE]
    PROVE  /\ user' \in [People -> User] /\ SupersStay' /\ OneSuperAdminLeft'
           /\ \A q \in People : Here(user'[q]) <=> Here(user[q])
           /\ \A q \in People : user'[q].in => user[q].in
<1>1. ASSUME NEW q \in People
      PROVE  \/ user'[q] = user[q]
             \/ user'[q] = [user[q] EXCEPT !.status = status]
             \/ user'[q] = Left(user[q])
  <2>1. CASE user' = Decided(p, status)
    BY <2>1, DecidedValue DEF Inv
  <2>2. CASE user' = [user EXCEPT ![p].status = "unset", ![p].in = FALSE]
    BY <2>2, LeftValue DEF Inv
  <2> QED BY <2>1, <2>2
<1>2. ASSUME NEW q \in People
      PROVE  /\ user'[q] \in User
             /\ user'[q].life = user[q].life /\ user'[q].role = user[q].role
             /\ user'[q].in => user[q].in
  <2>1. user[q] \in User
    BY DEF Inv, TypeOK
  <2> QED BY <1>1, <2>1 DEF User, Left
<1>3. user' \in [People -> User]
  <2>1. user' = [q \in People |-> user'[q]]
    BY DEF Inv, TypeOK, Decided
  <2> QED BY <1>2, <2>1
<1>4. \A s \in Supers : user'[s].life = user[s].life /\ user'[s].role = user[s].role
  BY <1>2 DEF People
<1> QED
  BY <1>2, <1>3, <1>4 DEF Inv, SupersStay, OneSuperAdminLeft, IsSuper, Here

(* The clean-up after an account has left: a company without accounts goes  *)
(* with its rows.                                                           *)
LEMMA LeaveKeeps ==
    ASSUME Inv, NEW in, NEW left, NEW kept, user' = left,
           \A p \in People : Here(left[p]) /\ left[p].in => Here(user[p]) /\ user[p].in,
           Leave(in, left, kept)
    PROVE  company' \in Life /\ row' \in [Rows -> Row] /\ NothingIsOrphaned'
<1>1. [NoRow EXCEPT !.life = "gone"] \in Row /\ ~ Here([NoRow EXCEPT !.life = "gone"])
  BY DEF NoRow, Row, Life, Here
<1>2. CASE DropCompany(left)
  BY <1>1, <1>2 DEF DropCompany, Inv, TypeOK, NothingIsOrphaned, Life
<1>3. CASE KeepCompany(kept)
  BY <1>1, <1>3 DEF KeepCompany, Inv, TypeOK, NothingIsOrphaned
<1> QED BY <1>2, <1>3 DEF CleanUp, Leave

-----------------------------------------------------------------------------
(* auth.py *)

LEMMA CommitFoundInv == ASSUME Inv, NEW w \in Workers, CommitFound(w) PROVE Inv'
<1> DEFINE p == txn[w].person
           x == [NoRow EXCEPT !.life = "here", !.email = p, !.user = p]
<1>1. x \in Row
  BY DEF Inv, TypeOK, Txn, NoRow, Row, Life
<1>2. row' \in [Rows -> Row] /\ company' = "here" /\ company' \in Life
  BY <1>1, InsertRowTyped DEF CommitFound, Life
<1>3. user' \in [People -> User] /\ SupersStay' /\ OneSuperAdminLeft'
  BY RecordsTyped, MadeKeepsSupers DEF CommitFound
<1>4. txn' \in [Workers -> Txn] /\ \A v \in Workers : Shape(txn[v])'
  BY DoneShape DEF CommitFound
<1> QED BY <1>2, <1>3, <1>4 DEF Inv, TypeOK, NothingIsOrphaned

LEMMA CommitJoinInv == ASSUME Inv, NEW w \in Workers, CommitJoin(w) PROVE Inv'
<1>1. user' \in [People -> User] /\ SupersStay' /\ OneSuperAdminLeft'
  BY RecordsTyped, MadeKeepsSupers DEF CommitJoin
<1>2. txn' \in [Workers -> Txn] /\ \A v \in Workers : Shape(txn[v])'
  BY DoneShape DEF CommitJoin
<1>3. company' = "here" /\ company' = company /\ row' = row
  BY DEF CommitJoin, CompanyReferenced
<1> QED BY <1>1, <1>2, <1>3 DEF Inv, TypeOK, NothingIsOrphaned

(* The row of the invitation is there, and with it the company. *)
LEMMA CommitInviteInv == ASSUME Inv, NEW w \in Workers, CommitInvite(w) PROVE Inv'
<1>1. txn[w].row \in Rows /\ txn[w].sets.life = Same /\ txn[w].sets # NoUpdate
  BY DEF Inv, Shape, CommitInvite, Runs
<1>2. Here(row[txn[w].row]) /\ company = "here" /\ company' = company
  BY <1>1 DEF Inv, CommitInvite, RowMatched, NothingIsOrphaned
<1>3. row' \in [Rows -> Row] /\ \A r \in Rows : Here(row'[r]) <=> Here(row[r])
  BY <1>1, WriteRowTyped DEF CommitInvite
<1>4. user' \in [People -> User] /\ SupersStay' /\ OneSuperAdminLeft'
  BY RecordsTyped, MadeKeepsSupers DEF CommitInvite
<1>5. txn' \in [Workers -> Txn] /\ \A v \in Workers : Shape(txn[v])'
  BY DoneShape DEF CommitInvite
<1> QED BY <1>2, <1>3, <1>4, <1>5 DEF Inv, TypeOK, NothingIsOrphaned

-----------------------------------------------------------------------------
(* client/team.py *)

LEMMA CommitCreateInv == ASSUME Inv, NEW w \in Workers, CommitCreate(w) PROVE Inv'
<1>1. txn[w].sets \in Row
  BY DEF Inv, Shape, CommitCreate, Runs
<1>2. company' = "here" /\ company' = company /\ user' = user
  BY DEF CommitCreate, CompanyReferenced
<1>3. row' \in [Rows -> Row]
  BY <1>1, <1>2, InsertRowTyped DEF CommitCreate
<1>4. txn' \in [Workers -> Txn] /\ \A v \in Workers : Shape(txn[v])'
  BY DoneShape DEF CommitCreate
<1> QED
  BY <1>2, <1>3, <1>4 DEF Inv, TypeOK, NothingIsOrphaned, SupersStay, OneSuperAdminLeft, IsSuper

LEMMA CommitRowInv == ASSUME Inv, NEW w \in Workers, CommitRow(w) PROVE Inv'
<1>1. row' \in [Rows -> Row] /\ \A r \in Rows : Here(row'[r]) <=> Here(row[r])
  BY WriteRowTyped DEF Inv, Shape, CommitRow, Runs
<1>2. txn' \in [Workers -> Txn] /\ \A v \in Workers : Shape(txn[v])'
  BY DoneShape DEF CommitRow
<1>3. company' = company /\ user' = user
  BY DEF CommitRow
<1> QED
  BY <1>1, <1>2, <1>3 DEF Inv, TypeOK, NothingIsOrphaned, SupersStay, OneSuperAdminLeft, IsSuper

LEMMA CommitDeleteInv == ASSUME Inv, NEW w \in Workers, CommitDelete(w) PROVE Inv'
<1> DEFINE p == txn[w].person
<1>1. [NoRow EXCEPT !.life = "gone"] \in Row /\ ~ Here([NoRow EXCEPT !.life = "gone"])
  BY DEF NoRow, Row, Life, Here
<1>2. row' \in [Rows -> Row] /\ \A r \in Rows : Here(row'[r]) => Here(row[r])
  BY <1>1 DEF CommitDelete, Inv, TypeOK
<1>3. txn' \in [Workers -> Txn] /\ (\A v \in Workers : Shape(txn[v])') /\ company' = company
  BY DoneShape DEF CommitDelete
<1>4. /\ user' \in [People -> User] /\ SupersStay' /\ OneSuperAdminLeft'
      /\ \A q \in People : Here(user'[q]) /\ user'[q].in => Here(user[q]) /\ user[q].in
  <2>1. CASE p # None
    <3>1. user' = [user EXCEPT ![p].status = "unset", ![p].in = FALSE]
      BY <2>1 DEF CommitDelete
    <3>2. /\ user' \in [People -> User] /\ SupersStay' /\ OneSuperAdminLeft'
          /\ \A q \in People : Here(user'[q]) <=> Here(user[q])
          /\ \A q \in People : user'[q].in => user[q].in
      BY <3>1, StatusKeepsSupers, Zenon
    <3> QED BY <3>2
  <2>2. CASE p = None
    <3>1. user' = user
      BY <2>2 DEF CommitDelete
    <3> QED BY <3>1 DEF Inv, TypeOK, SupersStay, OneSuperAdminLeft, IsSuper
  <2> QED BY <2>1, <2>2
<1> QED BY <1>2, <1>3, <1>4 DEF Inv, TypeOK, NothingIsOrphaned

(* Linking writes nothing yet. *)
LEMMA LinkRowInv == ASSUME Inv, NEW w \in Workers, LinkRow(w) PROVE Inv'
<1> DEFINE p == txn[w].person
           made == [NoRow EXCEPT !.life = "here", !.email = p, !.user = p]
<1>0. txn[w] \in Txn /\ p \in People \cup {None} /\ txn[w].row = None /\ txn[w].op = "approve"
  BY DEF LinkRow, Runs, Inv, TypeOK, Txn, Shape
<1>1. PICK t : /\ txn' = [txn EXCEPT ![w] = t]
               /\ t \in Txn /\ Shape(t)
  <2>1. CASE \E r \in Rows : txn' = [txn EXCEPT ![w].pc = "linking", ![w].row = r,
              ![w].sets = Changes(row[r], [row[r] EXCEPT !.user = p, !.email = p, !.invited = FALSE])]
    <3>1. PICK r \in Rows : txn' = [txn EXCEPT ![w].pc = "linking", ![w].row = r,
              ![w].sets = Changes(row[r], [row[r] EXCEPT !.user = p, !.email = p, !.invited = FALSE])]
      BY <2>1
    <3> DEFINE y == [row[r] EXCEPT !.user = p, !.email = p, !.invited = FALSE]
               t == [txn[w] EXCEPT !.pc = "linking", !.row = r, !.sets = Changes(row[r], y)]
    <3>2. row[r] \in Row /\ y \in Row /\ y.life = row[r].life
      BY <1>0 DEF Inv, TypeOK, Row
    <3>3. Changes(row[r], y) \in Update /\ Changes(row[r], y).life = Same
      BY <3>2, ChangesTyped
    <3>4. t \in Txn /\ t.pc = "linking" /\ t.row = r /\ t.op = "approve" /\ t.sets.life = Same
      BY <1>0, <3>3 DEF Txn
    <3>5. Shape(t)
      BY <3>4, TeamAssumption DEF Shape
    <3>6. txn' = [txn EXCEPT ![w] = t]
      BY <3>1 DEF Inv, TypeOK
    <3> QED BY <3>4, <3>5, <3>6
  <2>2. CASE txn' = [txn EXCEPT ![w].pc = "linking", ![w].sets = made]
    <3> DEFINE t == [txn[w] EXCEPT !.pc = "linking", !.sets = made]
    <3>1. made \in Row /\ made \in Update
      BY <1>0 DEF NoRow, Row, Update, Life
    <3>2. t \in Txn /\ t.pc = "linking" /\ t.row = None /\ t.op = "approve" /\ t.sets = made
      BY <1>0, <3>1 DEF Txn
    <3>3. Shape(t)
      BY <3>1, <3>2 DEF Shape
    <3>4. txn' = [txn EXCEPT ![w] = t]
      BY <2>2 DEF Inv, TypeOK
    <3> QED BY <3>2, <3>3, <3>4
  <2> QED BY <2>1, <2>2 DEF LinkRow
<1>2. txn' \in [Workers -> Txn] /\ \A v \in Workers : Shape(txn[v])'
  BY <1>1 DEF Inv, TypeOK, Shape
<1> QED
  BY <1>2 DEF LinkRow, Inv, TypeOK, NothingIsOrphaned, SupersStay, OneSuperAdminLeft, IsSuper

LEMMA CommitApproveInv == ASSUME Inv, NEW w \in Workers, CommitApprove(w) PROVE Inv'
<1>1. txn' \in [Workers -> Txn] /\ (\A v \in Workers : Shape(txn[v])') /\ company' = company
  BY DoneShape DEF CommitApprove
<1>2. row' \in [Rows -> Row] /\ \A r \in Rows : Here(row'[r]) => company' = "here"
  <2>1. CASE txn[w].row # None
    <3>1. row' \in [Rows -> Row] /\ \A r \in Rows : Here(row'[r]) <=> Here(row[r])
      BY <2>1, WriteRowTyped DEF CommitApprove, Inv, Shape
    <3> QED BY <1>1, <3>1 DEF Inv, NothingIsOrphaned
  <2>2. CASE txn[w].row = None
    <3>1. txn[w].sets \in Row /\ company' = "here" /\ InsertRow(txn[w].sets)
      BY <2>2, <1>1 DEF CommitApprove, Inv, Shape, CompanyReferenced
    <3> QED BY <3>1, InsertRowTyped
  <2> QED BY <2>1, <2>2
<1>3. /\ user' \in [People -> User] /\ SupersStay' /\ OneSuperAdminLeft'
      /\ \A q \in People : Here(user'[q]) /\ user'[q].in => Here(user[q]) /\ user[q].in
  <2>1. user' = Decided(txn[w].person, "active")
    BY DEF CommitApprove
  <2>2. /\ user' \in [People -> User] /\ SupersStay' /\ OneSuperAdminLeft'
        /\ \A q \in People : Here(user'[q]) <=> Here(user[q])
        /\ \A q \in People : user'[q].in => user[q].in
    BY <2>1, StatusKeepsSupers, Zenon
  <2> QED BY <2>2
<1> QED BY <1>1, <1>2, <1>3 DEF Inv, TypeOK, NothingIsOrphaned

LEMMA CommitRejectInv == ASSUME Inv, NEW w \in Workers, CommitReject(w) PROVE Inv'
<1>1. /\ txn' \in [Workers -> Txn] /\ \A v \in Workers : Shape(txn[v])'
      /\ company' = company /\ row' = row
  BY DoneShape DEF CommitReject
<1>2. user' = Decided(txn[w].person, "rejected")
  BY DEF CommitReject
<1>3. /\ user' \in [People -> User] /\ SupersStay' /\ OneSuperAdminLeft'
      /\ \A q \in People : Here(user'[q]) <=> Here(user[q])
      /\ \A q \in People : user'[q].in => user[q].in
  BY <1>2, StatusKeepsSupers, Zenon
<1> QED BY <1>1, <1>3 DEF Inv, TypeOK, NothingIsOrphaned

-----------------------------------------------------------------------------
(* admin.py and user_admin.py *)

(* Whoever deletes is a super administrator, still there, and stays. *)
LEMMA CommitUserDeleteInv == ASSUME Inv, NEW w \in Workers, CommitUserDelete(w) PROVE Inv'
<1> DEFINE p == txn[w].person
           s == txn[w].actor
           gone == [NoUser EXCEPT !.life = "gone"]
           left == [user EXCEPT ![p] = gone]
<1>1. s \in Supers /\ p # s /\ Here(user[s])
  BY DEF CommitUserDelete, Inv, Shape, Runs, ActorReferenced
<1>2. gone \in User /\ gone.life = "gone"
  BY DEF NoUser, User, Life
<1>3. user' = left /\ user' \in [People -> User]
  BY <1>2 DEF CommitUserDelete, Inv, TypeOK
<1>4. \A q \in People : user'[q] = gone \/ user'[q] = user[q]
  BY <1>3 DEF Inv, TypeOK
<1>5. user'[s] = user[s]
  BY <1>1, <1>3
<1>6. SupersStay'
  BY <1>2, <1>4 DEF Inv, SupersStay, IsSuper, Here, People
<1>7. OneSuperAdminLeft'
  BY <1>1, <1>5 DEF Inv, SupersStay, OneSuperAdminLeft, IsSuper
<1>8. company' \in Life /\ row' \in [Rows -> Row] /\ NothingIsOrphaned'
  <2>1. \A q \in People : Here(left[q]) /\ left[q].in => Here(user[q]) /\ user[q].in
    BY <1>2, <1>3, <1>4 DEF Here
  <2>2. Leave(txn[w].in, left, {r \in Rows : row[r].user # p})
    BY DEF CommitUserDelete
  <2> QED BY <1>3, <2>1, <2>2, LeaveKeeps
<1>9. txn' \in [Workers -> Txn] /\ \A v \in Workers : Shape(txn[v])'
  BY DoneShape DEF CommitUserDelete
<1> QED BY <1>3, <1>6, <1>7, <1>8, <1>9 DEF Inv, TypeOK

(* An account with a client's role is nobody's among the super              *)
(* administrators.                                                          *)
LEMMA ClientIsNoSuper ==
    ASSUME Inv, NEW p \in People, Here(user[p]), user[p].role \in {"client_user", "client_admin"}
    PROVE  p \notin Supers
BY DEF Inv, SupersStay, IsSuper

LEMMA RoleChangeInv ==
    ASSUME Inv, NEW p \in Clients, NEW role \in {"client_user", "client_admin"}, RoleChange(p, role)
    PROVE  Inv'
<1>1. p \in People /\ user[p] \in User /\ p \notin Supers
  BY ClientIsNoSuper DEF People, Inv, TypeOK, RoleChange
<1>2. [user[p] EXCEPT !.role = role] \in User
  BY <1>1 DEF User
<1>3. user' \in [People -> User]
  BY <1>2 DEF Inv, TypeOK, RoleChange
<1>4. \A q \in People : user'[q].life = user[q].life /\ user'[q].in = user[q].in
  BY <1>1 DEF Inv, TypeOK, RoleChange, User
<1>5. \A s \in Supers : user'[s] = user[s]
  BY <1>1 DEF Inv, TypeOK, RoleChange, People
<1>6. company' = company /\ row' = row /\ txn' = txn
  BY DEF RoleChange
<1> QED
  BY <1>3, <1>4, <1>5, <1>6 DEF Inv, TypeOK, SupersStay, OneSuperAdminLeft, NothingIsOrphaned,
      IsSuper, Here, Shape

LEMMA BecomeCatererInv == ASSUME Inv, NEW p \in Clients, BecomeCaterer(p) PROVE Inv'
<1> DEFINE left == [user EXCEPT ![p].role = "caterer", ![p].status = "unset", ![p].in = FALSE]
<1>1. p \in People /\ user[p] \in User /\ p \notin Supers
  BY ClientIsNoSuper DEF People, Inv, TypeOK, BecomeCaterer
<1>2. [user[p] EXCEPT !.role = "caterer", !.status = "unset", !.in = FALSE] \in User
  BY <1>1 DEF User
<1>3. \A q \in People : left[q] = IF q = p
          THEN [user[p] EXCEPT !.role = "caterer", !.status = "unset", !.in = FALSE] ELSE user[q]
  BY DEF Inv, TypeOK
<1>4. user' = left /\ user' \in [People -> User]
  BY <1>2, <1>3 DEF Inv, TypeOK, BecomeCaterer
<1>5. \A s \in Supers : user'[s] = user[s]
  BY <1>1, <1>3, <1>4 DEF People
<1>6. company' \in Life /\ row' \in [Rows -> Row] /\ NothingIsOrphaned'
  <2>1. \A q \in People : Here(left[q]) /\ left[q].in => Here(user[q]) /\ user[q].in
    <3>1. [user[p] EXCEPT !.role = "caterer", !.status = "unset", !.in = FALSE].in = FALSE
      BY <1>1 DEF User
    <3>2. ~ left[p].in
      BY <1>1, <1>3, <3>1
    <3> QED BY <1>3, <3>2
  <2>2. Leave(user[p].in, left, Rows)
    BY DEF BecomeCaterer
  <2> QED BY <1>4, <2>1, <2>2, LeaveKeeps
<1>7. txn' = txn
  BY DEF BecomeCaterer
<1> QED
  BY <1>4, <1>5, <1>6, <1>7 DEF Inv, TypeOK, SupersStay, OneSuperAdminLeft, IsSuper, Here, Shape

(* The founder of a company is no super administrator. *)
LEMMA CommitClientInv == ASSUME Inv, NEW w \in Workers, CommitClient(w) PROVE Inv'
<1> DEFINE p == txn[w].person
<1>1. PICK role \in {"client_user", "client_admin"} :
          user' = [user EXCEPT ![p] = Member("active", role)]
  BY DEF CommitClient
<1>2. p \in Clients
  BY DEF CommitClient, Runs, Inv, Shape
<1>3. user' \in [People -> User]
  BY <1>1, RecordsTyped DEF Inv, TypeOK
<1>4. \A s \in Supers : user'[s] = user[s]
  BY <1>1, <1>2, TeamAssumption DEF Inv, TypeOK, People
<1>5. company' = "here" /\ row' = row
  BY DEF CommitClient
<1>6. txn' \in [Workers -> Txn] /\ \A v \in Workers : Shape(txn[v])'
  BY DoneShape DEF CommitClient
<1> QED
  BY <1>3, <1>4, <1>5, <1>6 DEF Inv, TypeOK, SupersStay, OneSuperAdminLeft, NothingIsOrphaned,
      IsSuper, Here, Life

LEMMA SignupCatererInv == ASSUME Inv, NEW p \in Clients, SignupCaterer(p) PROVE Inv'
<1> DEFINE u == [NoUser EXCEPT !.life = "here", !.role = "caterer"]
<1>1. user' \in [People -> User] /\ SupersStay' /\ OneSuperAdminLeft'
  BY RecordsTyped, MadeKeepsSupers DEF SignupCaterer
<1>2. ~ u.in
  BY DEF NoUser
<1>3. \A q \in People : Here(user'[q]) /\ user'[q].in => Here(user[q]) /\ user[q].in
  BY <1>2 DEF SignupCaterer, Inv, TypeOK
<1>4. company' = company /\ row' = row /\ txn' = txn
  BY DEF SignupCaterer
<1> QED BY <1>1, <1>3, <1>4 DEF Inv, TypeOK, NothingIsOrphaned, Shape

LEMMA AbortInv == ASSUME Inv, NEW w \in Workers, Abort(w) PROVE Inv'
<1>1. txn' \in [Workers -> Txn] /\ \A v \in Workers : Shape(txn[v])'
  BY DoneShape DEF Abort
<1>2. company' = company /\ user' = user /\ row' = row
  BY DEF Abort
<1> QED
  BY <1>1, <1>2 DEF Inv, TypeOK, SupersStay, OneSuperAdminLeft, NothingIsOrphaned, IsSuper

-----------------------------------------------------------------------------
(* The handlers that load: what each of them loads is a transaction of the  *)
(* right shape.                                                             *)

LEMMA PersonLoadInv ==
    ASSUME Inv, NEW w \in Workers, NEW p \in Clients,
           SignupFound(w, p) \/ SignupJoin(w, p) \/ TeamApprove(w, p) \/ TeamReject(w, p)
    PROVE  Inv'
<1> DEFINE t(op) == [Idle EXCEPT !.op = op, !.person = p]
<1>1. \A op \in {"found", "join", "approve", "reject"} :
         t(op) \in Txn /\ Shape([t(op) EXCEPT !.pc = "loaded"])
  BY RecordsTyped DEF Idle, Txn, Ops, People, Shape
<1>2. \E op \in {"found", "join", "approve", "reject"} : Load(w, t(op))
  BY DEF SignupFound, SignupJoin, TeamApprove, TeamReject
<1> QED BY <1>1, <1>2, LoadInv

LEMMA EmployeeCreateInv ==
    ASSUME Inv, NEW w \in Workers, NEW e \in Clients, EmployeeCreate(w, e) PROVE Inv'
<1> DEFINE x == [life |-> "here", email |-> e, user |-> None, invited |-> TRUE]
           t == [Idle EXCEPT !.op = "create", !.sets = x]
<1>1. x \in Row /\ x \in Update
  BY DEF Row, Update, People, Life
<1>2. t \in Txn /\ Shape([t EXCEPT !.pc = "loaded"])
  BY <1>1, RecordsTyped DEF Idle, Txn, Ops, Shape
<1>3. Load(w, t)
  BY DEF EmployeeCreate
<1> QED BY <1>2, <1>3, LoadInv

LEMMA AcceptInviteInv ==
    ASSUME Inv, NEW w \in Workers, NEW r \in Rows, AcceptInvite(w, r) PROVE Inv'
<1> DEFINE e == row[r]
           x == [NoUpdate EXCEPT !.user = e.email, !.invited = FALSE]
           t == [Idle EXCEPT !.op = "accept_invite", !.person = e.email, !.row = r, !.sets = x]
<1>1. e.email \in People \cup {None}
  BY DEF Inv, TypeOK, Row
<1>2. x \in Update /\ x.life = Same /\ x.user = e.email /\ NoUpdate.user = Same
  BY <1>1 DEF NoUpdate, Update
<1>3. x # NoUpdate
  BY <1>1, <1>2, TeamAssumption DEF People
<1>4. t \in Txn /\ Shape([t EXCEPT !.pc = "loaded"])
  BY <1>1, <1>2, <1>3, RecordsTyped DEF Idle, Txn, Ops, Shape
<1>5. Load(w, t)
  BY DEF AcceptInvite
<1> QED BY <1>4, <1>5, LoadInv

LEMMA ChangeInv ==
    ASSUME Inv, NEW w \in Workers, NEW r \in Rows, NEW x \in Update, x.life = Same,
           Load(w, Change(r, x))
    PROVE  Inv'
<1>1. Change(r, x) \in Txn /\ Shape([Change(r, x) EXCEPT !.pc = "loaded"])
  BY RecordsTyped DEF Change, Idle, Txn, Ops, Shape
<1> QED BY <1>1, LoadInv

LEMMA RowLoadInv ==
    ASSUME Inv, NEW w \in Workers, NEW r \in Rows,
           EmployeeInvite(w, r) \/ InviteRevoke(w, r) \/ \E e \in Clients : EmployeeEdit(w, r, e)
    PROVE  Inv'
<1>1. \A b \in BOOLEAN : /\ [NoUpdate EXCEPT !.invited = b] \in Update
                         /\ [NoUpdate EXCEPT !.invited = b].life = Same
  <2>1. [NoUpdate EXCEPT !.invited = TRUE] \in Update /\ [NoUpdate EXCEPT !.invited = FALSE] \in Update
    BY DEF NoUpdate, Update
  <2>2. /\ [NoUpdate EXCEPT !.invited = TRUE].life = Same
        /\ [NoUpdate EXCEPT !.invited = FALSE].life = Same
    BY DEF NoUpdate
  <2> QED BY <2>1, <2>2, Zenon
<1>2. CASE EmployeeInvite(w, r)
  BY <1>1, <1>2, ChangeInv DEF EmployeeInvite
<1>3. CASE InviteRevoke(w, r)
  BY <1>1, <1>3, ChangeInv DEF InviteRevoke
<1>4. CASE \E e \in Clients : EmployeeEdit(w, r, e)
  <2>1. PICK e \in Clients : EmployeeEdit(w, r, e)
    BY <1>4
  <2> DEFINE y == [row[r] EXCEPT !.email = e, !.invited = @ /\ row[r].user # None]
  <2>2. row[r] \in Row
    BY DEF Inv, TypeOK
  <2>3. y \in Row /\ y.life = row[r].life
    BY <2>2 DEF Row, People
  <2> QED BY <2>1, <2>2, <2>3, ChangesTyped, ChangeInv DEF EmployeeEdit
<1> QED BY <1>2, <1>3, <1>4

(* A removal loads the account of the row, or nobody. *)
LEMMA LoadsDelete ==
    ASSUME Inv, NEW w \in Workers, NEW r \in Rows, EmployeeDelete(w, r)
    PROVE  \/ Load(w, [Idle EXCEPT !.op = "delete", !.row = r])
           \/ \E p \in People : Load(w, [Idle EXCEPT !.op = "delete", !.row = r, !.person = p])
<1>1. row[r].user \in People \cup {None}
  BY DEF Inv, TypeOK, Row
<1> QED BY <1>1 DEF EmployeeDelete

LEMMA EmployeeDeleteInv ==
    ASSUME Inv, NEW w \in Workers, NEW r \in Rows, EmployeeDelete(w, r) PROVE Inv'
<1> DEFINE t(p) == [Idle EXCEPT !.op = "delete", !.row = r, !.person = p]
           none == [Idle EXCEPT !.op = "delete", !.row = r]
<1>1. ASSUME NEW p \in People PROVE t(p) \in Txn /\ Shape([t(p) EXCEPT !.pc = "loaded"])
  BY RecordsTyped DEF Idle, Txn, Ops, Shape
<1>2. none \in Txn /\ Shape([none EXCEPT !.pc = "loaded"])
  BY RecordsTyped DEF Idle, Txn, Ops, Shape
<1>3. Load(w, none) \/ \E p \in People : Load(w, t(p))
  BY LoadsDelete
<1> QED BY <1>1, <1>2, <1>3, LoadInv

LEMMA UserDeleteInv ==
    ASSUME Inv, NEW w \in Workers, NEW s \in Supers, NEW p \in People, UserDelete(w, s, p)
    PROVE  Inv'
<1> DEFINE t == [Idle EXCEPT !.op = "delete_user", !.actor = s, !.person = p, !.in = user[p].in]
<1>1. p # s /\ Load(w, t)
  BY DEF UserDelete
<1>2. user[p].in \in BOOLEAN
  BY DEF Inv, TypeOK, User
<1>3. t \in Txn /\ Shape([t EXCEPT !.pc = "loaded"])
  BY <1>1, <1>2, RecordsTyped DEF Idle, Txn, Ops, People, Shape
<1> QED BY <1>1, <1>3, LoadInv

LEMMA ClientLoadInv ==
    ASSUME Inv, NEW w \in Workers, NEW s \in Supers, NEW p \in Clients, ClientLoad(w, s, p)
    PROVE  Inv'
<1> DEFINE t == [Idle EXCEPT !.op = "become_client", !.actor = s, !.person = p]
<1>1. Load(w, t)
  BY DEF ClientLoad
<1>2. t \in Txn /\ Shape([t EXCEPT !.pc = "loaded"])
  BY RecordsTyped DEF Idle, Txn, Ops, People, Shape
<1> QED BY <1>1, <1>2, LoadInv

-----------------------------------------------------------------------------
(* Every step keeps the invariant. *)
LEMMA NextInv == Inv /\ [Next]_vars => Inv'
<1> SUFFICES ASSUME Inv, [Next]_vars PROVE Inv'
  OBVIOUS
<1>1. CASE \E p \in Clients : \/ SignupCaterer(p) \/ BecomeCaterer(p)
                              \/ \E role \in {"client_user", "client_admin"} : RoleChange(p, role)
  BY <1>1, SignupCatererInv, BecomeCatererInv, RoleChangeInv
<1>2. ASSUME NEW w \in Workers, Step(w) PROVE Inv'
  BY <1>2, PersonLoadInv, EmployeeCreateInv, AcceptInviteInv, RowLoadInv, EmployeeDeleteInv,
      UserDeleteInv, ClientLoadInv, LinkRowInv, CommitFoundInv, CommitJoinInv, CommitInviteInv,
      CommitCreateInv,
      CommitRowInv, CommitDeleteInv, CommitApproveInv, CommitRejectInv, CommitUserDeleteInv,
      CommitClientInv, AbortInv DEF Step
<1>3. CASE UNCHANGED vars
  BY <1>3 DEF vars, Inv, TypeOK, SupersStay, OneSuperAdminLeft, NothingIsOrphaned, IsSuper, Shape
<1> QED BY <1>1, <1>2, <1>3 DEF Next

(* The invariant holds in every reachable state. *)
THEOREM Invariance == Spec => []Inv
BY InitInv, NextInv, PTL DEF Spec

(* Every variable keeps its type. *)
THEOREM TeamTypeCorrect == Spec => []TypeOK
<1>1. Inv => TypeOK
  BY DEF Inv
<1> QED BY <1>1, Invariance, PTL

(* However many super administrators delete each other at once, one is left *)
(* (user_admin.py can_delete_user, audit.py log_admin_action).              *)
THEOREM TeamOneSuperAdminLeft == Spec => []OneSuperAdminLeft
<1>1. Inv => OneSuperAdminLeft
  BY DEF Inv
<1> QED BY <1>1, Invariance, PTL

(* No account belongs to a company that was deleted, and no staff row is    *)
(* left of one, whatever joins while it is deleted (auth.py signup,         *)
(* user_admin.py _delete_company_if_orphan).                                *)
THEOREM TeamNothingIsOrphaned == Spec => []NothingIsOrphaned
<1>1. Inv => NothingIsOrphaned
  BY DEF Inv
<1> QED BY <1>1, Invariance, PTL

-----------------------------------------------------------------------------
(* Whom the staff rows belong to, and what a pending approval writes. *)

TiedInv == Inv /\ Tied

(* An account that is no longer waiting stays so. *)
KeepsTies ==
    \A p \in People : user[p].life # "none" /\ user[p].status # "pending" =>
        user'[p].life # "none" /\ user'[p].status # "pending"

(* The accounts that approvals of other requests hold stay as they are. *)
LinkedStay(w) ==
    \A v \in Workers \ {w} : txn[v].pc = "linking" => user'[txn[v].person] = user[txn[v].person]

(* No account is made in the place of one that is being approved. *)
LEMMA MadeStays ==
    ASSUME Inv, NEW w \in Workers, NEW p, user[p].life = "none",
           \A q \in People : q # p => user'[q] = user[q], Tied
    PROVE  LinkedStay(w)
BY DEF LinkedStay, Tied, Fits, Here

(* What a handler has loaded goes on fitting while others commit. *)
LEMMA OthersFit ==
    ASSUME Inv, Tied, NEW w \in Workers, NEW t, txn' = [txn EXCEPT ![w] = t],
           LinkedStay(w), Fits(t, user'),
           t.pc = "linking" => \A v \in Workers \ {w} :
               txn[v].pc = "linking" => txn[v].person # t.person
    PROVE  OneLinker' /\ \A v \in Workers : Fits(txn'[v], user')
<1>1. \A v \in Workers : txn'[v] = IF v = w THEN t ELSE txn[v]
  BY DEF Inv, TypeOK
<1>2. OneLinker'
  BY <1>1 DEF OneLinker, Tied
<1>3. ASSUME NEW v \in Workers, v # w PROVE Fits(txn[v], user')
  BY <1>3 DEF Tied, Fits, LinkedStay, Here
<1> QED BY <1>1, <1>2, <1>3

(* A request that has ended fits. *)
LEMMA DoneFits ==
    ASSUME Inv, Tied, NEW w \in Workers, Done(w), LinkedStay(w)
    PROVE  OneLinker' /\ \A v \in Workers : Fits(txn'[v], user')
<1>1. Fits(Idle, user') /\ Idle.pc = "idle"
  BY DEF Fits, Idle
<1> QED BY <1>1, OthersFit DEF Done

(* So does one that has only loaded, when nothing else changes. *)
LEMMA LoadTied ==
    ASSUME Inv, Tied, NEW w \in Workers, NEW t \in Txn, Load(w, t),
           Fits([t EXCEPT !.pc = "loaded"], user)
    PROVE  Tied'
<1> DEFINE x == [t EXCEPT !.pc = "loaded"]
<1>1. x.pc = "loaded"
  BY DEF Txn
<1>2. txn' = [txn EXCEPT ![w] = x] /\ user' = user /\ row' = row /\ LinkedStay(w)
  BY DEF Load, LinkedStay
<1>3. OneLinker' /\ \A v \in Workers : Fits(txn'[v], user')
  BY <1>1, <1>2, OthersFit
<1>4. RowsAreMembers'
  BY <1>2 DEF Tied, RowsAreMembers
<1>5. MembersHaveStatus'
  BY <1>2 DEF Tied, MembersHaveStatus
<1> QED BY <1>3, <1>4, <1>5 DEF Tied

(* Rows that were there keep their person, and go on belonging to a member. *)
LEMMA RowsStayTied ==
    ASSUME Inv, Tied, KeepsTies, TypeOK',
           \A r \in Rows : Here(row'[r]) =>
               \/ Here(row[r]) /\ row'[r].user = row[r].user
               \/ row'[r].user = None
               \/ user'[row'[r].user].life # "none" /\ user'[row'[r].user].status # "pending"
    PROVE  RowsAreMembers'
<1> SUFFICES ASSUME NEW r \in Rows, Here(row'[r]), row'[r].user # None
             PROVE  user'[row'[r].user].life # "none" /\ user'[row'[r].user].status # "pending"
  BY DEF RowsAreMembers
<1>1. row'[r].user \in People
  BY DEF TypeOK, Row
<1> QED BY <1>1 DEF KeepsTies, Tied, RowsAreMembers

(* A row is written with the person of the update, or keeps its own. *)
LEMMA WriteRowUser ==
    ASSUME Inv, NEW w \in Workers, txn[w].sets.life = Same, WriteRow(w)
    PROVE  \A r \in Rows :
              IF r = txn[w].row
              THEN /\ Here(row'[r]) <=> Here(row[r])
                   /\ row'[r].user = IF txn[w].sets.user = Same THEN row[r].user
                                     ELSE txn[w].sets.user
              ELSE row'[r] = row[r]
<1> DEFINE x == txn[w].sets
<1> SUFFICES ASSUME NEW r \in Rows, r = txn[w].row
             PROVE  /\ Here(row'[r]) <=> Here(row[r])
                    /\ row'[r].user = IF x.user = Same THEN row[r].user ELSE x.user
  BY DEF WriteRow, Inv, TypeOK
<1>1. row[r] \in Row /\ x \in Update /\ row'[r] = Written(row[r], x)
  BY DEF WriteRow, Inv, TypeOK, Txn
<1>2. "user" \in DOMAIN row[r]
  BY <1>1 DEF Row
<1>3. Written(row[r], x).user = IF x.user = Same THEN row[r].user ELSE x.user
  BY <1>2 DEF Written
<1>4. Written(row[r], x).life = row[r].life
  BY <1>1, WrittenTyped
<1> QED BY <1>1, <1>3, <1>4 DEF Here

(* A decision about a person leaves nobody waiting who was not, and their   *)
(* leaving does not either.                                                 *)
LEMMA DecisionTies ==
    ASSUME Inv, Tied, NEW p,
           \/ \E status \in {"active", "rejected"} : user' = Decided(p, status)
           \/ user' = [user EXCEPT ![p].status = "unset", ![p].in = FALSE]
    PROVE  /\ KeepsTies /\ MembersHaveStatus'
           /\ \A q \in People : q # p => user'[q] = user[q]
<1>1. ASSUME NEW q \in People
      PROVE  \/ user'[q] = user[q]
             \/ /\ q = p /\ user[q].in
                /\ \E status \in {"active", "rejected"} :
                      user'[q] = [user[q] EXCEPT !.status = status]
             \/ q = p /\ user'[q] = Left(user[q])
  <2>1. ASSUME NEW status \in {"active", "rejected"}, user' = Decided(p, status)
        PROVE  \/ user'[q] = user[q]
               \/ q = p /\ user[q].in /\ user'[q] = [user[q] EXCEPT !.status = status]
    BY <2>1, DecidedValue DEF Inv
  <2>2. CASE user' = [user EXCEPT ![p].status = "unset", ![p].in = FALSE]
    BY <2>2, LeftValue DEF Inv
  <2> QED BY <2>1, <2>2
<1>2. ASSUME NEW q \in People
      PROVE  /\ user'[q].life = user[q].life
             /\ user'[q].status \in {user[q].status, "active", "rejected", "unset"}
             /\ IF user'[q].in THEN user'[q].status # "unset" ELSE user'[q].status = "unset"
  <2>1. user[q] \in User
    BY DEF Inv, TypeOK
  <2>2. IF user[q].in THEN user[q].status # "unset" ELSE user[q].status = "unset"
    BY DEF Tied, MembersHaveStatus
  <2>3. CASE user'[q] = user[q]
    BY <2>2, <2>3
  <2>4. ASSUME NEW status \in {"active", "rejected"}, user[q].in,
               user'[q] = [user[q] EXCEPT !.status = status]
        PROVE  /\ user'[q].life = user[q].life /\ user'[q].status = status
               /\ user'[q].in = user[q].in
    BY <2>1, <2>4 DEF User
  <2>5. CASE user'[q] = Left(user[q])
    <3>1. Left(user[q]).life = user[q].life /\ Left(user[q]).status = "unset"
      BY <2>1 DEF User, Left
    <3>2. ~ Left(user[q]).in
      BY <2>1 DEF User, Left
    <3> QED BY <2>5, <3>1, <3>2
  <2>6. CASE user[q].in /\ \E status \in {"active", "rejected"} :
                user'[q] = [user[q] EXCEPT !.status = status]
    BY <2>4, <2>6
  <2> QED BY <1>1, <2>3, <2>5, <2>6
<1>3. \A q \in People : q # p => user'[q] = user[q]
  BY <1>1
<1>4. KeepsTies
  BY <1>2 DEF KeepsTies
<1>5. MembersHaveStatus'
  BY <1>2 DEF MembersHaveStatus
<1> QED BY <1>3, <1>4, <1>5

(* Nor does the making of an account. *)
LEMMA MadeTies ==
    ASSUME Inv, Tied, NEW p, user[p].life = "none", NEW u \in User,
           IF u.in THEN u.status # "unset" ELSE u.status = "unset",
           user' = [user EXCEPT ![p] = u]
    PROVE  /\ KeepsTies /\ MembersHaveStatus'
           /\ \A q \in People : q # p => user'[q] = user[q]
           /\ p \in People => user'[p] = u
BY DEF KeepsTies, Tied, MembersHaveStatus, Inv, TypeOK

(* A founder is made with their row. *)
LEMMA CommitFoundTied == ASSUME Inv, Tied, TypeOK', NEW w \in Workers, CommitFound(w) PROVE Tied'
<1> DEFINE p == txn[w].person
           u == Member("active", "client_admin")
           x == [NoRow EXCEPT !.life = "here", !.email = p, !.user = p]
<1>1. u \in User /\ u.in /\ u.status = "active" /\ u.life = "here"
  BY RecordsTyped DEF Member
<1>2. /\ KeepsTies /\ MembersHaveStatus'
      /\ \A q \in People : q # p => user'[q] = user[q]
      /\ p \in People => user'[p] = u
  BY <1>1, MadeTies DEF CommitFound
<1>3. OneLinker' /\ \A v \in Workers : Fits(txn'[v], user')
  BY <1>2, MadeStays, DoneFits DEF CommitFound
<1>4. p \in People \cup {None}
  BY DEF Inv, TypeOK, Txn
<1>5. \A r \in Rows : row'[r] = row[r] \/ row'[r] = x
  BY DEF CommitFound, InsertRow, Inv, TypeOK
<1>6. x.user = p
  BY DEF NoRow
<1>7. RowsAreMembers'
  BY <1>1, <1>2, <1>4, <1>5, <1>6, RowsStayTied
<1> QED BY <1>2, <1>3, <1>7 DEF Tied

LEMMA CommitJoinTied == ASSUME Inv, Tied, TypeOK', NEW w \in Workers, CommitJoin(w) PROVE Tied'
<1> DEFINE p == txn[w].person
           u == Member("pending", "client_user")
<1>1. u \in User /\ u.in /\ u.status = "pending"
  BY RecordsTyped DEF Member
<1>2. /\ KeepsTies /\ MembersHaveStatus'
      /\ \A q \in People : q # p => user'[q] = user[q]
  BY <1>1, MadeTies DEF CommitJoin
<1>3. OneLinker' /\ \A v \in Workers : Fits(txn'[v], user')
  BY <1>2, MadeStays, DoneFits DEF CommitJoin
<1>4. RowsAreMembers'
  BY <1>2, RowsStayTied DEF CommitJoin
<1> QED BY <1>2, <1>3, <1>4 DEF Tied

(* Whoever accepts an invitation is made with a row. *)
LEMMA CommitInviteTied == ASSUME Inv, Tied, TypeOK', NEW w \in Workers, CommitInvite(w) PROVE Tied'
<1> DEFINE p == txn[w].person
           u == Member("active", "client_user")
<1>1. u \in User /\ u.in /\ u.status = "active" /\ u.life = "here"
  BY RecordsTyped DEF Member
<1>2. /\ KeepsTies /\ MembersHaveStatus'
      /\ \A q \in People : q # p => user'[q] = user[q]
      /\ p \in People => user'[p] = u
  BY <1>1, MadeTies DEF CommitInvite
<1>3. OneLinker' /\ \A v \in Workers : Fits(txn'[v], user')
  BY <1>2, MadeStays, DoneFits DEF CommitInvite
<1>4. p \in People \cup {None} /\ txn[w].sets.user = p /\ txn[w].sets.life = Same
  BY DEF CommitInvite, Runs, Inv, TypeOK, Txn, Shape, Tied, Fits
<1>5. \A r \in Rows : Here(row'[r]) =>
          (Here(row[r]) /\ row'[r].user = row[r].user) \/ row'[r].user = p
  BY <1>4, WriteRowUser DEF CommitInvite
<1>6. RowsAreMembers'
  BY <1>1, <1>2, <1>4, <1>5, RowsStayTied
<1> QED BY <1>2, <1>3, <1>6 DEF Tied

(* Steps that leave the accounts alone. *)
LEMMA NobodyChanges ==
    ASSUME Inv, Tied, user' = user
    PROVE  /\ KeepsTies /\ MembersHaveStatus'
           /\ \A w \in Workers : LinkedStay(w)
BY DEF KeepsTies, LinkedStay, Tied, MembersHaveStatus

LEMMA CommitCreateTied == ASSUME Inv, Tied, TypeOK', NEW w \in Workers, CommitCreate(w) PROVE Tied'
<1>1. KeepsTies /\ MembersHaveStatus' /\ LinkedStay(w)
  BY NobodyChanges DEF CommitCreate
<1>2. OneLinker' /\ \A v \in Workers : Fits(txn'[v], user')
  BY <1>1, DoneFits DEF CommitCreate
<1>3. txn[w].sets.user = None
  BY DEF CommitCreate, Runs, Tied, Fits
<1>4. \A r \in Rows : row'[r] = row[r] \/ row'[r] = txn[w].sets
  BY DEF CommitCreate, InsertRow, Inv, TypeOK
<1>5. RowsAreMembers'
  BY <1>1, <1>3, <1>4, RowsStayTied
<1> QED BY <1>1, <1>2, <1>5 DEF Tied

LEMMA CommitRowTied == ASSUME Inv, Tied, TypeOK', NEW w \in Workers, CommitRow(w) PROVE Tied'
<1>1. KeepsTies /\ MembersHaveStatus' /\ LinkedStay(w)
  BY NobodyChanges DEF CommitRow
<1>2. OneLinker' /\ \A v \in Workers : Fits(txn'[v], user')
  BY <1>1, DoneFits DEF CommitRow
<1>3. txn[w].sets.user = Same /\ txn[w].sets.life = Same
  BY DEF CommitRow, Runs, Inv, Shape, Tied, Fits
<1>4. \A r \in Rows : Here(row'[r]) => Here(row[r]) /\ row'[r].user = row[r].user
  BY <1>3, WriteRowUser DEF CommitRow
<1>5. RowsAreMembers'
  BY <1>1, <1>4, RowsStayTied
<1> QED BY <1>1, <1>2, <1>5 DEF Tied

LEMMA CommitDeleteTied == ASSUME Inv, Tied, TypeOK', NEW w \in Workers, CommitDelete(w) PROVE Tied'
<1> DEFINE p == txn[w].person
<1>1. KeepsTies /\ MembersHaveStatus' /\ LinkedStay(w)
  <2>1. CASE p # None
    <3>0. UserFree(w, p)
      BY <2>1 DEF CommitDelete
    <3>1. user' = [user EXCEPT ![p].status = "unset", ![p].in = FALSE]
      BY <2>1 DEF CommitDelete
    <3>2. /\ KeepsTies
          /\ MembersHaveStatus'
          /\ \A q \in People : q # p => user'[q] = user[q]
      <4>1. KeepsTies BY <3>1, DecisionTies
      <4>2. MembersHaveStatus' BY <3>1, DecisionTies
      <4>3. \A q \in People : q # p => user'[q] = user[q] BY <3>1 DEF Inv, TypeOK
      <4> QED BY <4>1, <4>2, <4>3
    <3>3. LinkedStay(w)
      BY <3>0, <3>2 DEF UserFree, Holds, LinkedStay, Tied, Fits
    <3> QED BY <3>2, <3>3
  <2>2. CASE p = None
    BY <2>2, NobodyChanges DEF CommitDelete
  <2> QED BY <2>1, <2>2
<1>2. OneLinker' /\ \A v \in Workers : Fits(txn'[v], user')
  BY <1>1, DoneFits DEF CommitDelete
<1>3. ~ Here([NoRow EXCEPT !.life = "gone"])
  BY DEF NoRow, Here
<1>4. \A r \in Rows : Here(row'[r]) => row'[r] = row[r]
  BY <1>3 DEF CommitDelete, Inv, TypeOK
<1>5. RowsAreMembers'
  BY <1>1, <1>4, RowsStayTied
<1> QED BY <1>1, <1>2, <1>5 DEF Tied

LEMMA CommitRejectTied == ASSUME Inv, Tied, TypeOK', NEW w \in Workers, CommitReject(w) PROVE Tied'
<1> DEFINE p == txn[w].person
<1>1. user' = Decided(p, "rejected") /\ UserFree(w, p) /\ row' = row
  BY DEF CommitReject
<1>2. /\ KeepsTies
      /\ MembersHaveStatus'
      /\ \A q \in People : q # p => user'[q] = user[q]
  <2>1. KeepsTies BY <1>1, DecisionTies
  <2>2. MembersHaveStatus' BY <1>1, DecisionTies
  <2>3. \A q \in People : q # p => user'[q] = user[q] BY <1>1, DecidedValue DEF Inv
  <2> QED BY <2>1, <2>2, <2>3
<1>3. LinkedStay(w)
  BY <1>1, <1>2 DEF UserFree, Holds, LinkedStay, Tied, Fits
<1>5. OneLinker' /\ \A v \in Workers : Fits(txn'[v], user')
  BY <1>3, DoneFits DEF CommitReject
<1>4. RowsAreMembers'
  BY <1>1, <1>2, RowsStayTied
<1> QED BY <1>2, <1>4, <1>5 DEF Tied

(* The others that write the account wait for the approval. *)
LEMMA CommitApproveTied ==
    ASSUME Inv, Tied, TypeOK', NEW w \in Workers, CommitApprove(w) PROVE Tied'
<1> DEFINE p == txn[w].person
<1>1. user' = Decided(p, "active")
  BY DEF CommitApprove
<1>2. /\ KeepsTies
      /\ MembersHaveStatus'
      /\ \A q \in People : q # p => user'[q] = user[q]
  <2>1. KeepsTies BY <1>1, DecisionTies
  <2>2. MembersHaveStatus' BY <1>1, DecisionTies
  <2>3. \A q \in People : q # p => user'[q] = user[q] BY <1>1, DecidedValue DEF Inv
  <2> QED BY <2>1, <2>2, <2>3
<1>3. /\ p \in People /\ Here(user[p]) /\ txn[w].sets.user \in {Same, p}
      /\ txn[w].row = None => txn[w].sets.user = p
  BY DEF CommitApprove, Tied, Fits
<1>4. LinkedStay(w)
  BY <1>2 DEF LinkedStay, Tied, OneLinker, Fits, CommitApprove
<1>5. OneLinker' /\ \A v \in Workers : Fits(txn'[v], user')
  BY <1>4, DoneFits DEF CommitApprove
<1>6. user'[p].life # "none" /\ user'[p].status # "pending"
  <2>1. user[p] \in User
    BY <1>3 DEF Inv, TypeOK
  <2>2. user'[p] = IF user[p].in THEN [user[p] EXCEPT !.status = "active"] ELSE user[p]
    BY <1>1, <1>3, DecidedValue DEF Inv
  <2>3. ~ user[p].in => user[p].status = "unset"
    BY <1>3 DEF Tied, MembersHaveStatus
  <2> QED BY <1>3, <2>1, <2>2, <2>3 DEF User, Here
<1>7. \A r \in Rows : Here(row'[r]) =>
          (Here(row[r]) /\ row'[r].user = row[r].user) \/ row'[r].user = p
  <2>1. CASE txn[w].row # None
    BY <1>3, <2>1, WriteRowUser DEF CommitApprove, Inv, Shape
  <2>2. CASE txn[w].row = None
    BY <1>3, <2>2 DEF CommitApprove, InsertRow, Inv, TypeOK
  <2> QED BY <2>1, <2>2
<1>8. RowsAreMembers'
  BY <1>2, <1>6, <1>7, RowsStayTied
<1> QED BY <1>2, <1>5, <1>8 DEF Tied

(* A clean-up only removes rows. *)
LEMMA LeaveRemoves ==
    ASSUME Inv, NEW in, NEW left, NEW kept, Leave(in, left, kept), NEW r \in Rows, Here(row'[r])
    PROVE  row'[r] = row[r]
<1>1. ~ Here([NoRow EXCEPT !.life = "gone"])
  BY DEF NoRow, Here
<1>2. CASE DropCompany(left)
  BY <1>1, <1>2 DEF DropCompany, Inv, TypeOK
<1>3. CASE KeepCompany(kept)
  BY <1>1, <1>3 DEF KeepCompany, Inv, TypeOK
<1> QED BY <1>2, <1>3 DEF CleanUp, Leave

LEMMA CommitUserDeleteTied ==
    ASSUME Inv, Tied, TypeOK', NEW w \in Workers, CommitUserDelete(w) PROVE Tied'
<1> DEFINE p == txn[w].person
           gone == [NoUser EXCEPT !.life = "gone"]
<1>1. gone.life = "gone" /\ gone.status = "unset" /\ ~ gone.in
  BY DEF NoUser
<1>2. user' = [user EXCEPT ![p] = gone]
  BY DEF CommitUserDelete
<1>3. UserFree(w, p) /\ Leave(txn[w].in, user', {r \in Rows : row[r].user # p})
  BY DEF CommitUserDelete
<1> HIDE DEF gone
<1>4. \A q \in People : user'[q] = IF q = p THEN gone ELSE user[q]
  BY <1>2 DEF Inv, TypeOK
<1>5. KeepsTies
  BY <1>1, <1>4 DEF KeepsTies
<1>6. MembersHaveStatus'
  BY <1>1, <1>4 DEF Tied, MembersHaveStatus
<1>7. LinkedStay(w)
  BY <1>3, <1>4 DEF UserFree, Holds, LinkedStay, Tied, Fits
<1>8. OneLinker' /\ \A v \in Workers : Fits(txn'[v], user')
  BY <1>7, DoneFits DEF CommitUserDelete
<1>9. \A r \in Rows : Here(row'[r]) => row'[r] = row[r]
  BY <1>3, LeaveRemoves
<1>10. RowsAreMembers'
  BY <1>5, <1>9, RowsStayTied
<1> QED BY <1>6, <1>8, <1>10 DEF Tied

(* A change of role is of an account that no approval holds; the account    *)
(* stays a member's as it is, or leaves the company.                        *)
LEMMA RoleTied ==
    ASSUME Inv, Tied, TypeOK', NEW p \in People, ~ \E w \in Workers : Holds(w, p),
           NEW u, user' = [user EXCEPT ![p] = u], txn' = txn,
           u.life = user[p].life, u.status \in {user[p].status, "unset"},
           IF u.in THEN user[p].in /\ u.status = user[p].status ELSE u.status = "unset",
           \A r \in Rows : Here(row'[r]) => row'[r] = row[r]
    PROVE  Tied'
<1>1. \A q \in People : user'[q] = IF q = p THEN u ELSE user[q]
  BY DEF Inv, TypeOK
<1>2. KeepsTies /\ MembersHaveStatus'
  BY <1>1 DEF KeepsTies, Tied, MembersHaveStatus
<1>3. RowsAreMembers'
  BY <1>2, RowsStayTied
<1>4. \A v \in Workers : Fits(txn'[v], user')
  BY <1>1 DEF Holds, Tied, Fits, Here
<1> QED BY <1>2, <1>3, <1>4 DEF Tied, OneLinker

LEMMA RoleChangeTied ==
    ASSUME Inv, Tied, TypeOK', NEW p \in Clients, NEW role \in {"client_user", "client_admin"},
           RoleChange(p, role)
    PROVE  Tied'
<1> DEFINE u == [user[p] EXCEPT !.role = role]
<1>1. p \in People /\ user[p] \in User
  BY DEF People, Inv, TypeOK
<1>2. u.life = user[p].life /\ u.status = user[p].status /\ u.in = user[p].in
  BY <1>1 DEF User
<1>5. ~ u.in => u.status = "unset"
  BY <1>1, <1>2 DEF Tied, MembersHaveStatus
<1>3. user' = [user EXCEPT ![p] = u] /\ txn' = txn /\ row' = row
  BY DEF RoleChange
<1>4. ~ \E w \in Workers : Holds(w, p)
  BY DEF RoleChange
<1> HIDE DEF u
<1> QED BY <1>1, <1>2, <1>3, <1>4, <1>5, RoleTied

LEMMA BecomeCatererTied ==
    ASSUME Inv, Tied, TypeOK', NEW p \in Clients, BecomeCaterer(p) PROVE Tied'
<1> DEFINE u == [user[p] EXCEPT !.role = "caterer", !.status = "unset", !.in = FALSE]
<1>1. p \in People /\ user[p] \in User
  BY DEF People, Inv, TypeOK
<1>2. u.life = user[p].life /\ u.status = "unset" /\ u.in = FALSE
  BY <1>1 DEF User
<1>3. user' = [user EXCEPT ![p] = u]
  <2>1. user' = [user EXCEPT ![p].role = "caterer", ![p].status = "unset", ![p].in = FALSE]
    BY DEF BecomeCaterer
  <2>2. \A q \in People : user'[q] = [user EXCEPT ![p] = u][q]
    BY <1>1, <2>1 DEF Inv, TypeOK
  <2> QED BY <2>1, <2>2 DEF Inv, TypeOK
<1>4. txn' = txn /\ ~ (\E w \in Workers : Holds(w, p)) /\ Leave(user[p].in, user', Rows)
  BY DEF BecomeCaterer
<1>5. \A r \in Rows : Here(row'[r]) => row'[r] = row[r]
  BY <1>4, LeaveRemoves
<1> HIDE DEF u
<1> QED BY <1>1, <1>2, <1>3, <1>4, <1>5, RoleTied

(* The founder by a change of role was outside, where no approval holds an  *)
(* account of this step.                                                    *)
LEMMA CommitClientTied ==
    ASSUME Inv, Tied, TypeOK', NEW w \in Workers, CommitClient(w) PROVE Tied'
<1> DEFINE p == txn[w].person
<1>1. PICK role \in {"client_user", "client_admin"} :
          user' = [user EXCEPT ![p] = Member("active", role)]
  BY DEF CommitClient
<1> DEFINE u == Member("active", role)
<1>2. u.life = "here" /\ u.status = "active" /\ u.in
  BY DEF Member
<1>3. UserFree(w, p) /\ row' = row
  BY DEF CommitClient
<1> HIDE DEF u
<1>4. \A q \in People : user'[q] = IF q = p THEN u ELSE user[q]
  BY <1>1 DEF Inv, TypeOK, u
<1>5. KeepsTies
  BY <1>2, <1>4 DEF KeepsTies
<1>6. MembersHaveStatus'
  BY <1>2, <1>4 DEF Tied, MembersHaveStatus
<1>7. LinkedStay(w)
  BY <1>3, <1>4 DEF UserFree, Holds, LinkedStay, Tied, Fits
<1>8. OneLinker' /\ \A v \in Workers : Fits(txn'[v], user')
  BY <1>7, DoneFits DEF CommitClient
<1>9. RowsAreMembers'
  BY <1>3, <1>5, RowsStayTied
<1> QED BY <1>6, <1>8, <1>9 DEF Tied

LEMMA SignupCatererTied ==
    ASSUME Inv, Tied, TypeOK', NEW p \in Clients, SignupCaterer(p) PROVE Tied'
<1> DEFINE u == [NoUser EXCEPT !.life = "here", !.role = "caterer"]
<1>1. u \in User /\ ~ u.in /\ u.status = "unset"
  BY RecordsTyped DEF NoUser
<1>2. user[p].life = "none" /\ user' = [user EXCEPT ![p] = u] /\ row' = row /\ txn' = txn
  BY DEF SignupCaterer
<1> HIDE DEF u
<1>3. KeepsTies /\ MembersHaveStatus' /\ \A q \in People : q # p => user'[q] = user[q]
  BY <1>1, <1>2, MadeTies
<1>4. RowsAreMembers'
  BY <1>2, <1>3, RowsStayTied
<1>5. \A v \in Workers : Fits(txn'[v], user')
  BY <1>2, <1>3 DEF Tied, Fits, Here
<1> QED BY <1>2, <1>3, <1>4, <1>5 DEF Tied, OneLinker

LEMMA AbortTied == ASSUME Inv, Tied, NEW w \in Workers, Abort(w) PROVE Tied'
<1>1. OneLinker' /\ \A v \in Workers : Fits(txn'[v], user')
  BY NobodyChanges, DoneFits DEF Abort
<1>2. user' = user /\ row' = row
  BY DEF Abort
<1>3. MembersHaveStatus' /\ RowsAreMembers'
  BY <1>2 DEF Tied, MembersHaveStatus, RowsAreMembers
<1> QED BY <1>1, <1>3 DEF Tied

(* The handlers that load. *)
LEMMA PersonLoadTied ==
    ASSUME Inv, Tied, NEW w \in Workers, NEW p \in Clients,
           SignupFound(w, p) \/ SignupJoin(w, p) \/ TeamApprove(w, p) \/ TeamReject(w, p)
    PROVE  Tied'
<1> DEFINE t(op) == [Idle EXCEPT !.op = op, !.person = p]
<1>1. \A op \in {"found", "join", "approve", "reject"} :
         t(op) \in Txn /\ Fits([t(op) EXCEPT !.pc = "loaded"], user)
  BY RecordsTyped DEF Idle, Txn, Ops, People, Fits
<1>2. \E op \in {"found", "join", "approve", "reject"} : Load(w, t(op))
  BY DEF SignupFound, SignupJoin, TeamApprove, TeamReject
<1> QED BY <1>1, <1>2, LoadTied

LEMMA EmployeeCreateTied ==
    ASSUME Inv, Tied, NEW w \in Workers, NEW e \in Clients, EmployeeCreate(w, e) PROVE Tied'
<1> DEFINE x == [life |-> "here", email |-> e, user |-> None, invited |-> TRUE]
           t == [Idle EXCEPT !.op = "create", !.sets = x]
<1>1. x \in Update /\ x.user = None
  BY DEF Update, People, Life
<1>2. t \in Txn /\ Fits([t EXCEPT !.pc = "loaded"], user)
  BY <1>1, RecordsTyped DEF Idle, Txn, Ops, Fits
<1>3. Load(w, t)
  BY DEF EmployeeCreate
<1> QED BY <1>2, <1>3, LoadTied

LEMMA AcceptInviteTied ==
    ASSUME Inv, Tied, NEW w \in Workers, NEW r \in Rows, AcceptInvite(w, r) PROVE Tied'
<1> DEFINE e == row[r]
           x == [NoUpdate EXCEPT !.user = e.email, !.invited = FALSE]
           t == [Idle EXCEPT !.op = "accept_invite", !.person = e.email, !.row = r, !.sets = x]
<1>1. e.email \in People \cup {None}
  BY DEF Inv, TypeOK, Row
<1>2. x \in Update /\ x.user = e.email
  BY <1>1 DEF NoUpdate, Update
<1>3. t \in Txn /\ Fits([t EXCEPT !.pc = "loaded"], user)
  BY <1>1, <1>2, RecordsTyped DEF Idle, Txn, Ops, Fits
<1>4. Load(w, t)
  BY DEF AcceptInvite
<1> QED BY <1>3, <1>4, LoadTied

LEMMA ChangeTied ==
    ASSUME Inv, Tied, NEW w \in Workers, NEW r \in Rows, NEW x \in Update, x.user = Same,
           Load(w, Change(r, x))
    PROVE  Tied'
<1>1. Change(r, x) \in Txn /\ Fits([Change(r, x) EXCEPT !.pc = "loaded"], user)
  BY RecordsTyped DEF Change, Idle, Txn, Ops, Fits
<1> QED BY <1>1, LoadTied

(* The difference of two rows names the person only when they differ in it. *)
LEMMA ChangesUser ==
    ASSUME NEW x \in Row, NEW y \in Row
    PROVE  Changes(x, y).user = IF y.user = x.user THEN Same ELSE y.user
<1>1. "user" \in DOMAIN x
  BY DEF Row
<1> QED BY <1>1 DEF Changes

LEMMA RowLoadTied ==
    ASSUME Inv, Tied, NEW w \in Workers, NEW r \in Rows,
           EmployeeInvite(w, r) \/ InviteRevoke(w, r) \/ \E e \in Clients : EmployeeEdit(w, r, e)
    PROVE  Tied'
<1>1. [NoUpdate EXCEPT !.invited = TRUE] \in Update /\ [NoUpdate EXCEPT !.invited = FALSE] \in Update
  BY DEF NoUpdate, Update
<1>2. /\ [NoUpdate EXCEPT !.invited = TRUE].user = Same
      /\ [NoUpdate EXCEPT !.invited = FALSE].user = Same
  BY DEF NoUpdate
<1>3. CASE EmployeeInvite(w, r)
  BY <1>1, <1>2, <1>3, ChangeTied DEF EmployeeInvite
<1>4. CASE InviteRevoke(w, r)
  BY <1>1, <1>2, <1>4, ChangeTied DEF InviteRevoke
<1>5. CASE \E e \in Clients : EmployeeEdit(w, r, e)
  <2>1. PICK e \in Clients : EmployeeEdit(w, r, e)
    BY <1>5
  <2> DEFINE y == [row[r] EXCEPT !.email = e, !.invited = @ /\ row[r].user # None]
  <2>2. row[r] \in Row
    BY DEF Inv, TypeOK
  <2>3. y \in Row /\ y.life = row[r].life /\ y.user = row[r].user
    BY <2>2 DEF Row, People
  <2>4. Changes(row[r], y) \in Update /\ Changes(row[r], y).user = Same
    BY <2>2, <2>3, ChangesTyped, ChangesUser
  <2> QED BY <2>1, <2>4, ChangeTied DEF EmployeeEdit
<1> QED BY <1>3, <1>4, <1>5

LEMMA AdminLoadTied ==
    ASSUME Inv, Tied, NEW w \in Workers,
           \/ \E r \in Rows : EmployeeDelete(w, r)
           \/ \E s \in Supers, p \in People : UserDelete(w, s, p)
           \/ \E s \in Supers, p \in Clients : ClientLoad(w, s, p)
    PROVE  Tied'
<1>1. ASSUME NEW r \in Rows, EmployeeDelete(w, r) PROVE Tied'
  <2> DEFINE t(p) == [Idle EXCEPT !.op = "delete", !.row = r, !.person = p]
             none == [Idle EXCEPT !.op = "delete", !.row = r]
  <2>1. ASSUME NEW p \in People PROVE t(p) \in Txn /\ Fits([t(p) EXCEPT !.pc = "loaded"], user)
    BY RecordsTyped DEF Idle, Txn, Ops, Fits
  <2>2. none \in Txn /\ Fits([none EXCEPT !.pc = "loaded"], user)
    BY RecordsTyped DEF Idle, Txn, Ops, Fits
  <2>3. Load(w, none) \/ \E p \in People : Load(w, t(p))
    BY <1>1, LoadsDelete
  <2> QED BY <2>1, <2>2, <2>3, LoadTied
<1>2. ASSUME NEW s \in Supers, NEW p \in People, UserDelete(w, s, p) PROVE Tied'
  <2> DEFINE t == [Idle EXCEPT !.op = "delete_user", !.actor = s, !.person = p,
                               !.in = user[p].in]
  <2>1. user[p].in \in BOOLEAN
    BY DEF Inv, TypeOK, User
  <2>2. t \in Txn /\ Fits([t EXCEPT !.pc = "loaded"], user)
    BY <2>1, RecordsTyped DEF Idle, Txn, Ops, People, Fits
  <2>3. Load(w, t)
    BY <1>2 DEF UserDelete
  <2> QED BY <2>2, <2>3, LoadTied
<1>3. ASSUME NEW s \in Supers, NEW p \in Clients, ClientLoad(w, s, p) PROVE Tied'
  <2> DEFINE t == [Idle EXCEPT !.op = "become_client", !.actor = s, !.person = p]
  <2>1. t \in Txn /\ Fits([t EXCEPT !.pc = "loaded"], user)
    BY RecordsTyped DEF Idle, Txn, Ops, People, Fits
  <2>2. Load(w, t)
    BY <1>3 DEF ClientLoad
  <2> QED BY <2>1, <2>2, LoadTied
<1> QED BY <1>1, <1>2, <1>3

(* An approval takes the account's lock; a row it leaves as it is belongs   *)
(* to somebody who is no longer waiting.                                    *)
LEMMA LinkRowTied == ASSUME Inv, Tied, NEW w \in Workers, LinkRow(w) PROVE Tied'
<1> DEFINE p == txn[w].person
           made == [NoRow EXCEPT !.life = "here", !.email = p, !.user = p]
<1>1. /\ txn[w] \in Txn /\ txn[w].row = None /\ txn[w].op = "approve" /\ p \in People
      /\ Here(user[p]) /\ UserFree(w, p) /\ user' = user /\ row' = row
  BY DEF LinkRow, Runs, Inv, TypeOK, Shape, Tied, Fits
<1>2. PICK t : txn' = [txn EXCEPT ![w] = t] /\ t.person = p /\ Fits(t, user)
  <2>1. CASE \E r \in Rows : /\ Here(row[r])
              /\ txn' = [txn EXCEPT ![w].pc = "linking", ![w].row = r,
                    ![w].sets = Changes(row[r], [row[r] EXCEPT !.user = p, !.email = p,
                                                               !.invited = FALSE])]
    <3>1. PICK r \in Rows : /\ Here(row[r])
              /\ txn' = [txn EXCEPT ![w].pc = "linking", ![w].row = r,
                    ![w].sets = Changes(row[r], [row[r] EXCEPT !.user = p, !.email = p,
                                                               !.invited = FALSE])]
      BY <2>1
    <3> DEFINE y == [row[r] EXCEPT !.user = p, !.email = p, !.invited = FALSE]
               c == Changes(row[r], y)
               t == [txn[w] EXCEPT !.pc = "linking", !.row = r, !.sets = c]
    <3>2. row[r] \in Row /\ y \in Row /\ y.user = p
      BY <1>1 DEF Inv, TypeOK, Row
    <3>3. c.user = IF p = row[r].user THEN Same ELSE p
      <4> HIDE DEF y
      <4> QED BY <3>2, ChangesUser
    <3>4. p # Same /\ p # None /\ r # None
      BY <1>1, TeamAssumption DEF People
    <3>5. c.user = Same => user[p].status # "pending"
      BY <3>1, <3>3, <3>4 DEF Tied, RowsAreMembers
    <3>6. txn' = [txn EXCEPT ![w] = t]
      BY <3>1 DEF Inv, TypeOK
    <3> HIDE DEF c
    <3>7. t.pc = "linking" /\ t.row = r /\ t.op = "approve" /\ t.sets = c /\ t.person = p
      BY <1>1 DEF Txn
    <3>8. Fits(t, user)
      BY <1>1, <3>3, <3>4, <3>5, <3>7 DEF Fits
    <3> QED BY <3>6, <3>7, <3>8
  <2>2. CASE txn' = [txn EXCEPT ![w].pc = "linking", ![w].sets = made]
    <3> DEFINE t == [txn[w] EXCEPT !.pc = "linking", !.sets = made]
    <3>1. made.life = "here" /\ made.user = p
      BY DEF NoRow
    <3>2. p # Same
      BY <1>1, TeamAssumption DEF People
    <3>3. txn' = [txn EXCEPT ![w] = t]
      BY <2>2 DEF Inv, TypeOK
    <3> HIDE DEF made
    <3>4. t.pc = "linking" /\ t.row = None /\ t.op = "approve" /\ t.sets = made /\ t.person = p
      BY <1>1 DEF Txn
    <3>5. Fits(t, user)
      BY <1>1, <3>1, <3>2, <3>4 DEF Fits
    <3> QED BY <3>3, <3>4, <3>5
  <2> QED BY <2>1, <2>2 DEF LinkRow
<1>3. \A v \in Workers \ {w} : txn[v].pc = "linking" => txn[v].person # p
  BY <1>1 DEF UserFree, Holds
<1>4. OneLinker' /\ \A v \in Workers : Fits(txn'[v], user')
  BY <1>1, <1>2, <1>3, NobodyChanges, OthersFit
<1>5. MembersHaveStatus' /\ RowsAreMembers'
  BY <1>1 DEF Tied, MembersHaveStatus, RowsAreMembers
<1> QED BY <1>4, <1>5 DEF Tied

LEMMA StepTied ==
    ASSUME Inv, Tied, TypeOK', NEW w \in Workers, Step(w)
    PROVE  Tied'
<1>1. CASE \E p \in Clients : \/ SignupFound(w, p) \/ SignupJoin(w, p)
                              \/ TeamApprove(w, p) \/ TeamReject(w, p) \/ EmployeeCreate(w, p)
  BY <1>1, PersonLoadTied, EmployeeCreateTied
<1>2. CASE \E r \in Rows : \/ AcceptInvite(w, r) \/ EmployeeInvite(w, r) \/ InviteRevoke(w, r)
                           \/ EmployeeDelete(w, r)
                           \/ \E e \in Clients : EmployeeEdit(w, r, e)
  BY <1>2, AcceptInviteTied, RowLoadTied, AdminLoadTied
<1>3. CASE \/ \E s \in Supers, p \in People : UserDelete(w, s, p)
           \/ \E s \in Supers, p \in Clients : ClientLoad(w, s, p)
  BY <1>3, AdminLoadTied
<1>4. CASE LinkRow(w) \/ Abort(w)
  BY <1>4, LinkRowTied, AbortTied
<1>5. CASE CommitFound(w) \/ CommitJoin(w) \/ CommitInvite(w) \/ CommitCreate(w)
  BY <1>5, CommitFoundTied, CommitJoinTied, CommitInviteTied, CommitCreateTied
<1>6. CASE CommitRow(w) \/ CommitDelete(w) \/ CommitApprove(w)
  BY <1>6, CommitRowTied, CommitDeleteTied, CommitApproveTied
<1>7. CASE CommitReject(w) \/ CommitUserDelete(w) \/ CommitClient(w)
  BY <1>7, CommitRejectTied, CommitUserDeleteTied, CommitClientTied
<1> QED BY <1>1, <1>2, <1>3, <1>4, <1>5, <1>6, <1>7 DEF Step

(* Every step keeps both. *)
LEMMA NextTiedInv == TiedInv /\ [Next]_vars => TiedInv'
<1> SUFFICES ASSUME Inv, Tied, [Next]_vars PROVE TiedInv'
  BY DEF TiedInv
<1>1. Inv'
  BY NextInv
<1>2. TypeOK'
  BY <1>1 DEF Inv
<1>3. CASE \E p \in Clients : \/ SignupCaterer(p) \/ BecomeCaterer(p)
                              \/ \E role \in {"client_user", "client_admin"} : RoleChange(p, role)
  <2>1. PICK p \in Clients : \/ SignupCaterer(p) \/ BecomeCaterer(p)
                             \/ \E role \in {"client_user", "client_admin"} : RoleChange(p, role)
    BY <1>3
  <2>2. Tied'
    BY <1>2, <2>1, SignupCatererTied, BecomeCatererTied, RoleChangeTied
  <2> QED BY <1>1, <2>2 DEF TiedInv
<1>4. ASSUME NEW w \in Workers, Step(w) PROVE TiedInv'
  <2>1. Tied'
    BY <1>2, <1>4, StepTied
  <2> QED BY <1>1, <2>1 DEF TiedInv
<1>5. CASE UNCHANGED vars
  <2>1. Tied'
    BY <1>5 DEF vars, Tied, RowsAreMembers, OneLinker, MembersHaveStatus, Fits
  <2> QED BY <1>1, <2>1 DEF TiedInv
<1> QED BY <1>3, <1>4, <1>5 DEF Next

LEMMA InitTied == Init => TiedInv
<1> SUFFICES ASSUME Init PROVE Tied
  BY InitInv DEF TiedInv
<1>1. RowsAreMembers
  BY DEF Init, RowsAreMembers, NoRow, Here
<1>2. MembersHaveStatus
  BY DEF Init, NoUser, MembersHaveStatus
<1>3. \A w \in Workers : txn[w] = Idle
  BY DEF Init
<1>4. Fits(Idle, user) /\ Idle.pc = "idle"
  BY DEF Fits, Idle
<1> QED BY <1>1, <1>2, <1>3, <1>4 DEF Tied, OneLinker

(* A staff row belongs to a member or a former one, never to somebody who   *)
(* waits or has no account; one approval at a time writes an account        *)
(* (client/team.py team_approve, auth.py signup_invite).                    *)
THEOREM TeamRowsAreMembers == Spec => []Tied
<1>1. TiedInv => Tied
  BY DEF TiedInv
<1> QED BY <1>1, InitTied, NextTiedInv, PTL DEF Spec

-----------------------------------------------------------------------------
(* Whoever becomes active. *)

(* The step makes the person an active member. *)
Activates(p) == Active(user'[p]) /\ ~ Active(user[p])
Listed(p) == \E r \in Rows : Here(row'[r]) /\ row'[r].user = p

(* The person founds a company by a change of role. *)
Founds(p) == Here(user[p]) /\ company = "none"

(* Only the four commits that make somebody active do. *)
LEMMA UnwrittenIsNotActivated ==
    ASSUME Inv, NEW p \in People, Activates(p), NEW q,
           \/ user' = user
           \/ user' = Decided(q, "rejected")
           \/ user' = [user EXCEPT ![q].status = "unset", ![q].in = FALSE]
    PROVE  FALSE
<1>1. user[p] \in User
  BY DEF Inv, TypeOK
<1>2. \/ user'[p] = user[p]
      \/ user'[p] = [user[p] EXCEPT !.status = "rejected"]
      \/ user'[p] = Left(user[p])
  <2>1. CASE user' = Decided(q, "rejected")
    BY <2>1, DecidedValue DEF Inv
  <2>2. CASE user' = [user EXCEPT ![q].status = "unset", ![q].in = FALSE]
    BY <2>2, LeftValue DEF Inv
  <2> QED BY <2>1, <2>2
<1> QED BY <1>1, <1>2 DEF Activates, Active, User, Left

LEMMA FoundIsListed ==
    ASSUME Inv, Tied, NEW w \in Workers, CommitFound(w), NEW p \in People, Activates(p)
    PROVE  Listed(p)
<1> DEFINE x == [NoRow EXCEPT !.life = "here", !.email = txn[w].person, !.user = txn[w].person]
<1>1. p = txn[w].person
  BY DEF CommitFound, Activates, Inv, TypeOK
<1>2. Here(x) /\ x.user = txn[w].person
  BY DEF NoRow, Here
<1>3. \E r \in Rows : row'[r] = x
  BY DEF CommitFound, InsertRow, Inv, TypeOK
<1> QED BY <1>1, <1>2, <1>3 DEF Listed

LEMMA ClientFounds ==
    ASSUME Inv, NEW w \in Workers, CommitClient(w), NEW p \in People, Activates(p)
    PROVE  Founds(p)
<1>1. p = txn[w].person
  BY DEF CommitClient, Activates, Inv, TypeOK
<1> QED BY <1>1 DEF CommitClient, Founds

LEMMA InviteIsListed ==
    ASSUME Inv, Tied, NEW w \in Workers, CommitInvite(w), NEW p \in People, Activates(p)
    PROVE  Listed(p)
<1>1. p = txn[w].person
  BY DEF CommitInvite, Activates, Inv, TypeOK
<1>2. /\ txn[w].row \in Rows /\ txn[w].sets.life = Same /\ txn[w].sets # NoUpdate
      /\ txn[w].sets.user = p
  BY <1>1 DEF CommitInvite, Runs, Inv, Shape, Tied, Fits
<1>3. Here(row[txn[w].row])
  BY <1>2 DEF CommitInvite, RowMatched
<1>4. p # Same
  BY TeamAssumption DEF People
<1>5. Here(row'[txn[w].row]) /\ row'[txn[w].row].user = p
  BY <1>2, <1>3, <1>4, WriteRowUser DEF CommitInvite
<1> QED BY <1>2, <1>5 DEF Listed

LEMMA ApproveIsListed ==
    ASSUME Inv, Tied, NEW w \in Workers, CommitApprove(w), NEW p \in People, Activates(p)
    PROVE  Listed(p) \/ (user[p].status = "rejected" /\ FoundListed(p))
<1>1. p = txn[w].person
  <2>1. user' = Decided(txn[w].person, "active")
    BY DEF CommitApprove
  <2>2. p # txn[w].person => user'[p] = user[p]
    BY <2>1, DecidedValue DEF Inv
  <2> QED BY <2>2 DEF Activates
<1>2. /\ txn[w].pc = "linking" /\ txn[w].sets.user \in {Same, p}
      /\ txn[w].sets.user = Same => txn[w].row # None /\ user[p].status # "pending"
      /\ txn[w].row = None => txn[w].sets.life = "here"
      /\ txn[w].row # None => txn[w].row \in Rows /\ txn[w].sets.life = Same
  BY <1>1 DEF CommitApprove, Tied, Fits, Inv, Shape
<1>3. CASE txn[w].sets.user = Same
  <2>1. user[p] \in User /\ user'[p] =
            IF user[p].in THEN [user[p] EXCEPT !.status = "active"] ELSE user[p]
    BY <1>1, DecidedValue DEF CommitApprove, Inv, TypeOK
  <2>2. Here(user[p]) /\ user[p].in /\ user[p].status # "active"
    BY <2>1 DEF Activates, Active, Here, User
  <2>3. user[p].status # "unset"
    BY <2>2 DEF Tied, MembersHaveStatus
  <2>4. user[p].status = "rejected"
    BY <1>2, <1>3, <2>1, <2>2, <2>3 DEF User
  <2> QED BY <1>1, <1>2, <1>3, <2>4 DEF FoundListed, Holds
<1>4. CASE txn[w].sets.user = p /\ txn[w].sets.user # Same /\ txn[w].row # None
  <2>1. txn[w].sets # NoUpdate
    BY <1>4 DEF NoUpdate
  <2>2. Here(row[txn[w].row])
    BY <1>4, <2>1 DEF CommitApprove, RowMatched
  <2>3. Here(row'[txn[w].row]) /\ row'[txn[w].row].user = p
    BY <1>2, <1>4, <2>2, WriteRowUser DEF CommitApprove
  <2> QED BY <1>2, <1>4, <2>3 DEF Listed
<1>5. CASE txn[w].sets.user = p /\ txn[w].sets.user # Same /\ txn[w].row = None
  <2>1. \E r \in Rows : row'[r] = txn[w].sets
    BY <1>5 DEF CommitApprove, InsertRow, Inv, TypeOK
  <2> QED BY <1>2, <1>5, <2>1 DEF Listed, Here
<1> QED BY <1>2, <1>3, <1>4, <1>5

(* A new account that waits, one that is gone and one that has left are not *)
(* active.                                                                  *)
LEMMA OthersActivateNobody ==
    ASSUME Inv, Tied, NEW p \in People, Activates(p)
    PROVE  /\ \A w \in Workers : ~ CommitJoin(w) /\ ~ CommitUserDelete(w)
           /\ \A q \in Clients : ~ SignupCaterer(q) /\ ~ BecomeCaterer(q)
           /\ \A q \in Clients, role \in {"client_user", "client_admin"} : ~ RoleChange(q, role)
<1>1. user[p] \in User
  BY DEF Inv, TypeOK
<1>2. ASSUME NEW w \in Workers, CommitJoin(w) PROVE FALSE
  <2>1. user'[p] = user[p] \/ user'[p] = Member("pending", "client_user")
    BY <1>2 DEF CommitJoin, Inv, TypeOK
  <2> QED BY <2>1 DEF Activates, Active, Member
<1>3. ASSUME NEW w \in Workers, CommitUserDelete(w) PROVE FALSE
  <2>1. user'[p] = user[p] \/ user'[p] = [NoUser EXCEPT !.life = "gone"]
    BY <1>3 DEF CommitUserDelete, Inv, TypeOK
  <2> QED BY <2>1 DEF Activates, Active, NoUser
<1>4. ASSUME NEW q \in Clients, BecomeCaterer(q) PROVE FALSE
  <2>1. \/ user'[p] = user[p]
        \/ user'[p] = [user[p] EXCEPT !.role = "caterer", !.status = "unset", !.in = FALSE]
    BY <1>4 DEF BecomeCaterer, Inv, TypeOK
  <2> QED BY <1>1, <2>1 DEF Activates, Active, User
<1>5. ASSUME NEW q \in Clients, NEW role \in {"client_user", "client_admin"}, RoleChange(q, role)
      PROVE  FALSE
  <2>1. user'[p] = user[p] \/ user'[p] = [user[p] EXCEPT !.role = role]
    BY <1>5 DEF RoleChange, Inv, TypeOK
  <2> QED BY <1>1, <2>1 DEF Activates, Active, Here, User
<1>6. ASSUME NEW q \in Clients, SignupCaterer(q) PROVE FALSE
  <2>1. user'[p] = user[p] \/ user'[p] = [NoUser EXCEPT !.life = "here", !.role = "caterer"]
    BY <1>6 DEF SignupCaterer, Inv, TypeOK
  <2> QED BY <2>1 DEF Activates, Active, NoUser
<1> QED BY <1>2, <1>3, <1>4, <1>5, <1>6

LEMMA StepListed ==
    ASSUME Inv, Tied, NEW w \in Workers, Step(w), NEW p \in People, Activates(p)
    PROVE  Listed(p) \/ (user[p].status = "rejected" /\ FoundListed(p)) \/ Founds(p)
<1>1. CASE CommitFound(w)
  BY <1>1, FoundIsListed
<1>2. CASE CommitInvite(w)
  BY <1>2, InviteIsListed
<1>3. CASE CommitApprove(w)
  BY <1>3, ApproveIsListed
<1>4. CASE CommitDelete(w)
  <2>1. \/ user' = user
        \/ user' = [user EXCEPT ![txn[w].person].status = "unset",
                                ![txn[w].person].in = FALSE]
    BY <1>4 DEF CommitDelete
  <2> QED BY <2>1, UnwrittenIsNotActivated
<1>5. CASE CommitReject(w)
  <2>1. user' = Decided(txn[w].person, "rejected")
    BY <1>5 DEF CommitReject
  <2> QED BY <2>1, UnwrittenIsNotActivated
<1>6. CASE CommitJoin(w) \/ CommitUserDelete(w)
  BY <1>6, OthersActivateNobody
<1>7. CASE user' = user
  BY <1>7, UnwrittenIsNotActivated
<1>9. CASE CommitClient(w)
  BY <1>9, ClientFounds
<1>8. \/ CommitFound(w) \/ CommitInvite(w) \/ CommitApprove(w) \/ CommitDelete(w)
      \/ CommitReject(w) \/ CommitJoin(w) \/ CommitUserDelete(w) \/ CommitClient(w)
      \/ user' = user
  BY DEF Step, SignupFound, SignupJoin, TeamApprove, TeamReject, EmployeeCreate, AcceptInvite,
      EmployeeInvite, InviteRevoke, EmployeeDelete, EmployeeEdit, UserDelete, ClientLoad, LinkRow,
      CommitCreate, CommitRow, Abort, Load
<1> QED BY <1>1, <1>2, <1>3, <1>4, <1>5, <1>6, <1>7, <1>8, <1>9

(* Whoever becomes active is listed, unless they had been rejected and the  *)
(* approval found them listed, or a change of role makes them the founder   *)
(* (client/team.py team_approve, auth.py signup_invite, user_admin.py       *)
(* change_role).                                                            *)
THEOREM TeamActivatedIsListed == Spec => ActivatedIsListed
<1> DEFINE A == \A p \in People : Activates(p) =>
                    Listed(p) \/ (user[p].status = "rejected" /\ FoundListed(p)) \/ Founds(p)
<1>1. ASSUME Inv, Tied, [Next]_vars PROVE A
  <2> SUFFICES ASSUME NEW p \in People, Activates(p)
               PROVE  Listed(p) \/ (user[p].status = "rejected" /\ FoundListed(p)) \/ Founds(p)
    OBVIOUS
  <2>1. CASE \E q \in Clients : \/ SignupCaterer(q) \/ BecomeCaterer(q)
                                \/ \E role \in {"client_user", "client_admin"} : RoleChange(q, role)
    BY <1>1, <2>1, OthersActivateNobody
  <2>2. ASSUME NEW w \in Workers, Step(w)
        PROVE  Listed(p) \/ (user[p].status = "rejected" /\ FoundListed(p)) \/ Founds(p)
    BY <1>1, <2>2, StepListed
  <2>3. CASE UNCHANGED vars
    BY <1>1, <2>3, UnwrittenIsNotActivated DEF vars
  <2> QED BY <1>1, <2>1, <2>2, <2>3 DEF Next
<1>2. TiedInv /\ [Next]_vars => [A]_vars
  BY <1>1 DEF TiedInv
<1>3. Spec => [][A]_vars
  BY <1>2, InitTied, NextTiedInv, PTL DEF Spec
<1>4. A <=> \A p \in People : Active(user[p])' /\ ~ Active(user[p]) =>
          \/ \E r \in Rows : Here(row'[r]) /\ row'[r].user = p
          \/ user[p].status = "rejected" /\ FoundListed(p)
          \/ Here(user[p]) /\ company = "none"
  BY DEF Activates, Listed, Founds, Active, Here
<1> QED BY <1>3, <1>4, PTL DEF ActivatedIsListed
=============================================================================
