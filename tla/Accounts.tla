------------------------------ MODULE Accounts ------------------------------
(***************************************************************************)
(* The credentials of one account: its password, its reset links           *)
(* (password_reset.py), its sessions (auth.py, app.py) and everything that *)
(* revokes them: logout, a change of password or of address (account.py),  *)
(* staff (admin.py, team.py, user_admin.py) and the command line (cli.py). *)
(* Accounts share no row, so one account is enough.                        *)
(*                                                                         *)
(* A session is a signed cookie.  It carries the sessions_invalidated_at   *)
(* that was current when it was stamped and lives while the two are equal. *)
(*                                                                         *)
(* A handler reads the row, takes the time, writes under row locks and     *)
(* commits; four of them stamp their session again after that.  Each of    *)
(* these is a step.  Passwords are those validate_password lets through.   *)
(***************************************************************************)
EXTENDS Naturals

CONSTANTS
    Workers,    \* concurrent requests
    Sessions,   \* browsers
    Links,      \* reset links that can be asked for
    Passwords,
    MaxTime,    \* bound: ticks of the clock, one for each time taken
    None

ASSUME AccountsAssumption == MaxTime \in Nat /\ None \notin Sessions \cup Links \cup Nat

VARIABLES
    password,   \* User.password_hash
    epoch,      \* User.sessions_invalidated_at, 0 for NULL
    open,       \* is_active, and no pending or rejected membership
    link,       \* PasswordResetToken.used_at, by link
    created,    \* PasswordResetToken.created_at
    stamp,      \* the session_epoch of each browser's cookie, None without a cookie
    txn,        \* the handler each worker runs
    clock,      \* the last time taken
    uses        \* how many password changes each link has made

user == <<password, epoch, open>>
tokens == <<link, created>>
vars == <<password, epoch, open, link, created, stamp, txn, clock, uses>>

-----------------------------------------------------------------------------
Time == 0..MaxTime
LinkStatus == {"absent", "live", "used"}

(* handlers of the signed-in user that stamp the session again at the end *)
Signed == {"profile", "email", "password"}
(* handlers that call revoke_all_sessions, or write its column themselves *)
Revoking == {"email", "password", "logout", "staff", "expel", "reset", "cli"}

Txn == [pc : {"idle", "loaded", "timed", "written", "committed"},
        op : Signed \cup Revoking \cup {"forgot", "none"},
        session : Sessions \cup {None}, link : Links \cup {None},
        password : Passwords \cup {None}, now : Time, burned : SUBSET Links]
Idle == [pc |-> "idle", op |-> "none", session |-> None, link |-> None,
         password |-> None, now |-> 0, burned |-> {}]

(* load_current_user *)
Live(s) == open /\ stamp[s] = epoch

(* the checks of consume_token on a row it finds; a link past its hour is   *)
(* refused like a used one and changes nothing                              *)
Usable(k) == link[k] = "live" /\ open /\ ~ (created[k] < epoch)

Running(w, op) == txn[w].op = op

(* the row of the user is locked from its UPDATE to the commit *)
UserLocked == \E w \in Workers : txn[w].pc = "written" /\ ~ Running(w, "forgot")

(* a wrong variant: consume_token without FOR UPDATE *)
HeldForNothing(w, k) == FALSE

(* consume_token: the row it read FOR UPDATE *)
Held(w, k) == Running(w, "reset") /\ txn[w].link = k

LinkLocked(w, k) ==
    \E v \in Workers \ {w} : Held(v, k) \/ (txn[v].pc = "written" /\ k \in txn[v].burned)

(* no clock value is taken twice *)
Tick == clock < MaxTime /\ clock' = clock + 1

Init ==
    /\ password \in Passwords /\ epoch = 0 /\ open = TRUE
    /\ link = [k \in Links |-> "absent"] /\ created = [k \in Links |-> 0]
    /\ stamp = [s \in Sessions |-> None]
    /\ txn = [w \in Workers |-> Idle]
    /\ clock = 0 /\ uses = [k \in Links |-> 0]

-----------------------------------------------------------------------------
(* A wrong variant: the session is stamped with the time of the login. *)
LoginTime == clock

(* _stamp_session *)
Stamped == epoch

(* The right password of an account that is open. *)
Login(s) ==
    /\ open
    /\ stamp' = [stamp EXCEPT ![s] = Stamped]
    /\ UNCHANGED <<user, tokens, txn, clock, uses>>

Start(w, op, s, k, p) ==
    /\ txn[w].pc = "idle"
    /\ txn' = [txn EXCEPT ![w] = [Idle EXCEPT !.pc = "loaded", !.op = op, !.session = s,
                                              !.link = k, !.password = p]]
    /\ UNCHANGED <<user, tokens, stamp, clock, uses>>

(* change_password: the current password is right, the new one another *)
ChangePassword(w, s, p) ==
    /\ Live(s) /\ p # password
    /\ Start(w, "password", s, None, p)

(* apply_profile_form with a new address: the current password is right *)
ChangeEmail(w, s) ==
    /\ Live(s)
    /\ Start(w, "email", s, None, None)

(* apply_profile_form without one: nothing that concerns the credentials is *)
(* written, but the session is stamped all the same                         *)
SaveProfile(w, s) ==
    /\ txn[w].pc = "idle" /\ Live(s)
    /\ txn' = [txn EXCEPT ![w] = [Idle EXCEPT !.pc = "committed", !.op = "profile",
                                              !.session = s]]
    /\ UNCHANGED <<user, tokens, stamp, clock, uses>>

(* logout does not go through load_current_user: any cookie will do *)
Logout(w, s) ==
    /\ stamp[s] # None
    /\ Start(w, "logout", s, None, None)

(* caterer_invalidate, change_role *)
RevokeByStaff(w) == Start(w, "staff", None, None, None)

(* team_reject, team_employee_delete *)
Expel(w) == Start(w, "expel", None, None, None)

(* flask admin reset-password *)
CliReset(w, p) == Start(w, "cli", None, None, p)

(* flask admin disable: is_active alone, nothing is revoked *)
CliDisable ==
    /\ open /\ ~ UserLocked
    /\ open' = FALSE
    /\ UNCHANGED <<password, epoch, tokens, stamp, txn, clock, uses>>

(* consume_token takes the row of the link and checks it *)
ConsumeToken(w, k, p) ==
    /\ Usable(k) /\ ~ LinkLocked(w, k)
    /\ Start(w, "reset", None, k, p)

(* kick_off_reset: created_at is the time its transaction began *)
KickOffReset(w, k) ==
    /\ txn[w].pc = "idle" /\ open
    /\ link[k] = "absent" /\ \A v \in Workers : txn[v].link # k
    /\ Tick
    /\ txn' = [txn EXCEPT ![w] = [Idle EXCEPT !.pc = "timed", !.op = "forgot",
                                              !.link = k, !.now = clock']]
    /\ UNCHANGED <<user, tokens, stamp, uses>>

-----------------------------------------------------------------------------
(* utcnow(), before the UPDATE that may wait for a lock *)
TakeTime(w) ==
    /\ txn[w].pc = "loaded"
    /\ Tick
    /\ txn' = [txn EXCEPT ![w].pc = "timed", ![w].now = clock']
    /\ UNCHANGED <<user, tokens, stamp, uses>>

(* _invalidate_outstanding_tokens: every unused link a statement can see.   *)
(* The command line leaves them alone: created_at will refuse them.         *)
Outstanding(w) ==
    IF Running(w, "cli") THEN {} ELSE {k \in Links : link[k] = "live"}

(* The UPDATE of the user and of the links, and for a request of a link its *)
(* INSERT.  A reset and a revocation can each hold the row the other wants: *)
(* the database then rolls one of them back, which is Abort.                *)
WriteRows(w) ==
    /\ txn[w].pc = "timed"
    /\ Running(w, "forgot") \/ ~ UserLocked
    /\ \A k \in Outstanding(w) : ~ LinkLocked(w, k)
    /\ txn' = [txn EXCEPT ![w].pc = "written", ![w].burned = Outstanding(w)]
    /\ UNCHANGED <<user, tokens, stamp, clock, uses>>

(* A wrong variant: the rows are deleted. *)
DeletedLinks(w) == [k \in Links \ txn[w].burned |-> link[k]]

(* the links as the commit leaves them *)
LinksAfter(w) ==
    [k \in Links |-> IF k \in txn[w].burned \/ Held(w, k) THEN "used" ELSE link[k]]

CommitForgot(w) ==
    /\ txn[w].pc = "written" /\ Running(w, "forgot")
    /\ link' = [LinksAfter(w) EXCEPT ![txn[w].link] = "live"]
    /\ created' = [created EXCEPT ![txn[w].link] = txn[w].now]
    /\ txn' = [txn EXCEPT ![w] = Idle]
    /\ UNCHANGED <<user, stamp, clock, uses>>

CommitRevocation(w) ==
    /\ txn[w].pc = "written" /\ ~ Running(w, "forgot")
    /\ password' = IF txn[w].password = None THEN password ELSE txn[w].password
    /\ epoch' = txn[w].now
    /\ open' = (open /\ ~ Running(w, "expel"))
    /\ link' = LinksAfter(w)
    /\ uses' = IF Running(w, "reset") THEN [uses EXCEPT ![txn[w].link] = @ + 1] ELSE uses
    /\ stamp' = IF Running(w, "logout") THEN [stamp EXCEPT ![txn[w].session] = None]
                ELSE stamp
    /\ txn' = [txn EXCEPT ![w] = IF txn[w].op \in Signed THEN [@ EXCEPT !.pc = "committed"]
                                  ELSE Idle]
    /\ UNCHANGED <<created, clock>>

(* _stamp_session after the commit: the row is read again, and with it a    *)
(* revocation committed meanwhile by somebody else                          *)
StampAgain(w) ==
    /\ txn[w].pc = "committed"
    /\ stamp' = [stamp EXCEPT ![txn[w].session] = Stamped]
    /\ txn' = [txn EXCEPT ![w] = Idle]
    /\ UNCHANGED <<user, tokens, clock, uses>>

(* A form refused, a worker that dies, a deadlock resolved. *)
Abort(w) ==
    /\ txn[w].pc # "idle"
    /\ txn' = [txn EXCEPT ![w] = Idle]
    /\ UNCHANGED <<user, tokens, stamp, clock, uses>>

Step(w) ==
    \/ \E s \in Sessions :
          \/ \E p \in Passwords : ChangePassword(w, s, p)
          \/ ChangeEmail(w, s) \/ SaveProfile(w, s) \/ Logout(w, s)
    \/ RevokeByStaff(w) \/ Expel(w)
    \/ \E p \in Passwords : CliReset(w, p)
    \/ \E k \in Links : KickOffReset(w, k) \/ \E p \in Passwords : ConsumeToken(w, k, p)
    \/ TakeTime(w) \/ WriteRows(w) \/ CommitForgot(w) \/ CommitRevocation(w)
    \/ StampAgain(w) \/ Abort(w)

Next == CliDisable \/ (\E s \in Sessions : Login(s)) \/ (\E w \in Workers : Step(w))

Spec == Init /\ [][Next]_vars

-----------------------------------------------------------------------------
(* Every variable has its type. *)
TypeOK ==
    /\ password \in Passwords /\ epoch \in Time /\ open \in BOOLEAN
    /\ link \in [Links -> LinkStatus] /\ created \in [Links -> Time]
    /\ stamp \in [Sessions -> Time \cup {None}]
    /\ txn \in [Workers -> Txn]
    /\ clock \in Time /\ uses \in [Links -> Nat]

(* A reset link changes the password at most once, however many requests    *)
(* present it at the same time.                                             *)
SingleUse == \A k \in Links : uses[k] <= 1

(* A link that a logout, a password or address change or a member of staff  *)
(* has burnt does not change the password any more: not even a request that *)
(* had checked the link before they committed.                              *)
BurntLinkIsDead ==
    [][\A k \in Links : link[k] = "used" => uses'[k] = uses[k]]_vars

(* A revocation, and a password changed by anyone, ends every session the   *)
(* account has at that moment, the one that asked for it included.          *)
RevocationEndsSessions ==
    [][epoch' # epoch \/ password' # password => \A s \in Sessions : ~ Live(s)']_vars
=============================================================================
