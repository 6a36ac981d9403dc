--------------------------- MODULE AccountsProofs ---------------------------
(***************************************************************************)
(* Proofs about Accounts, for any number of requests, browsers and links   *)
(* and any bound of the clock.                                             *)
(*                                                                         *)
(* A reset link works once because the request that consumes it holds its  *)
(* row from the test to the commit: LinksAreHeld.  A revocation ends every *)
(* session because the time it writes is in no cookie yet: TimesAreFresh.  *)
(***************************************************************************)
EXTENDS Accounts, TLAPS

(* A link in use is live, and no other request uses it or will burn it. *)
HeldAlone ==
    \A w \in Workers, k \in Links : Held(w, k) =>
        /\ link[k] = "live"
        /\ \A v \in Workers \ {w} :
              ~ Held(v, k) /\ ~ (txn[v].pc = "written" /\ k \in txn[v].burned)

(* A link asked for is not in the table yet, and nobody else has to do with *)
(* it.                                                                      *)
AskedAlone ==
    \A w \in Workers : Running(w, "forgot") =>
        /\ txn[w].link \in Links /\ link[txn[w].link] = "absent"
        /\ \A v \in Workers \ {w} :
              /\ txn[v].link # txn[w].link
              /\ txn[v].pc = "written" => txn[w].link \notin txn[v].burned

(* A request burns links that are in the table. *)
BurntExists ==
    \A w \in Workers : txn[w].pc = "written" =>
        \A k \in txn[w].burned : link[k] # "absent"

(* A link that can still be used has changed nothing. *)
UnusedIsUnspent == \A k \in Links : link[k] # "used" => uses[k] = 0

LinksAreHeld == HeldAlone /\ AskedAlone /\ BurntExists /\ UnusedIsUnspent

Timed(w) == txn[w].pc \in {"timed", "written"}

(* A time that was taken and is not written yet is in no cookie, is not the *)
(* one in the row, and was taken by one request only.                       *)
TimesAreFresh ==
    /\ epoch <= clock
    /\ \A s \in Sessions : stamp[s] # None => stamp[s] <= clock
    /\ \A w \in Workers : Timed(w) =>
          /\ txn[w].now <= clock /\ txn[w].now # epoch
          /\ \A s \in Sessions : stamp[s] # txn[w].now
          /\ \A v \in Workers \ {w} : Timed(v) => txn[v].now # txn[w].now

Inv == TypeOK /\ LinksAreHeld /\ TimesAreFresh

-----------------------------------------------------------------------------
(* Initially nobody is signed in and nothing is running. *)
LEMMA InitInv == Init => Inv
BY AccountsAssumption DEF Init, Inv, TypeOK, LinksAreHeld, HeldAlone, AskedAlone, BurntExists,
    UnusedIsUnspent, TimesAreFresh, Idle, Txn,
    Time, LinkStatus, Held, Running, Timed

(* The records that the handlers build. *)
LEMMA IdleTyped == Idle \in Txn
<1>1. 0 \in Time
  BY AccountsAssumption DEF Time
<1> QED
  BY <1>1 DEF Idle, Txn

LEMMA StartTyped ==
    ASSUME NEW op \in Signed \cup Revoking, NEW s \in Sessions \cup {None},
           NEW k \in Links \cup {None}, NEW p \in Passwords \cup {None},
           NEW pc \in {"loaded", "committed"}
    PROVE  [Idle EXCEPT !.pc = pc, !.op = op, !.session = s, !.link = k,
                        !.password = p] \in Txn
<1>1. op \in Signed \cup Revoking \cup {"forgot", "none"}
  BY Zenon
<1>2. pc \in {"idle", "loaded", "timed", "written", "committed"}
  OBVIOUS
<1> QED
  BY <1>1, <1>2, IdleTyped DEF Idle, Txn

LEMMA SaveTyped ==
    ASSUME NEW s \in Sessions
    PROVE  [Idle EXCEPT !.pc = "committed", !.op = "profile", !.session = s] \in Txn
<1>1. "profile" \in Signed \cup Revoking \cup {"forgot", "none"}
  BY Zenon DEF Signed
<1>2. "committed" \in {"idle", "loaded", "timed", "written", "committed"}
  OBVIOUS
<1> QED
  BY <1>1, <1>2, IdleTyped DEF Idle, Txn

LEMMA ForgotTyped ==
    ASSUME NEW k \in Links, NEW t \in Time
    PROVE  [Idle EXCEPT !.pc = "timed", !.op = "forgot", !.link = k, !.now = t] \in Txn
<1>1. "forgot" \in Signed \cup Revoking \cup {"forgot", "none"}
  OBVIOUS
<1>2. "timed" \in {"idle", "loaded", "timed", "written", "committed"}
  OBVIOUS
<1> QED
  BY <1>1, <1>2, IdleTyped DEF Idle, Txn

LEMMA NextTyped ==
    ASSUME NEW x \in Txn, NEW t \in Time, NEW b \in SUBSET Links
    PROVE  /\ [x EXCEPT !.pc = "timed", !.now = t] \in Txn
           /\ [x EXCEPT !.pc = "written", !.burned = b] \in Txn
           /\ [x EXCEPT !.pc = "committed"] \in Txn
BY DEF Txn

LEMMA TickTyped == clock \in Time /\ Tick => clock' \in Time /\ clock' = clock + 1
BY AccountsAssumption DEF Tick, Time

(* Every step keeps the types. *)
LEMMA TypeStep == TypeOK /\ [Next]_vars => TypeOK'
<1> USE DEF TypeOK, user, tokens
<1> SUFFICES ASSUME TypeOK, [Next]_vars PROVE TypeOK'
  OBVIOUS
<1>1. CASE UNCHANGED vars
  BY <1>1 DEF vars
<1>2. CASE CliDisable
  BY <1>2 DEF CliDisable
<1>3. ASSUME NEW s \in Sessions, Login(s) PROVE TypeOK'
  BY <1>3 DEF Login, Stamped
<1>4. ASSUME NEW w \in Workers, NEW op \in Signed \cup Revoking, NEW s \in Sessions \cup {None},
             NEW k \in Links \cup {None}, NEW p \in Passwords \cup {None}, Start(w, op, s, k, p)
      PROVE  TypeOK'
  BY <1>4, StartTyped DEF Start
<1>5. ASSUME NEW w \in Workers, Step(w) PROVE TypeOK'
  <2> USE DEF Signed, Revoking
  <2>1. ASSUME NEW s \in Sessions, NEW p \in Passwords, ChangePassword(w, s, p)
        PROVE  TypeOK'
    BY <2>1, <1>4 DEF ChangePassword
  <2>2. ASSUME NEW s \in Sessions, ChangeEmail(w, s) PROVE TypeOK'
    BY <2>2, <1>4 DEF ChangeEmail
  <2>3. ASSUME NEW s \in Sessions, SaveProfile(w, s) PROVE TypeOK'
    BY <2>3, SaveTyped DEF SaveProfile
  <2>4. ASSUME NEW s \in Sessions, Logout(w, s) PROVE TypeOK'
    BY <2>4, <1>4 DEF Logout
  <2>5. CASE RevokeByStaff(w)
    BY <2>5, <1>4 DEF RevokeByStaff
  <2>6. CASE Expel(w)
    BY <2>6, <1>4 DEF Expel
  <2>7. ASSUME NEW p \in Passwords, CliReset(w, p) PROVE TypeOK'
    BY <2>7, <1>4 DEF CliReset
  <2>8. ASSUME NEW k \in Links, KickOffReset(w, k) PROVE TypeOK'
    BY <2>8, ForgotTyped, TickTyped DEF KickOffReset
  <2>9. ASSUME NEW k \in Links, NEW p \in Passwords, ConsumeToken(w, k, p) PROVE TypeOK'
    BY <2>9, <1>4 DEF ConsumeToken
  <2>10. CASE TakeTime(w)
    <3>1. txn' = [txn EXCEPT ![w] = [txn[w] EXCEPT !.pc = "timed", !.now = clock']]
      BY <2>10 DEF TakeTime
    <3>2. [txn[w] EXCEPT !.pc = "timed", !.now = clock'] \in Txn
      BY <2>10, NextTyped, TickTyped DEF TakeTime
    <3> QED
      BY <2>10, <3>1, <3>2, TickTyped DEF TakeTime
  <2>11. CASE WriteRows(w)
    <3>1. txn' = [txn EXCEPT ![w] =
                    [txn[w] EXCEPT !.pc = "written", !.burned = Outstanding(w)]]
      BY <2>11 DEF WriteRows
    <3>2. Outstanding(w) \in SUBSET Links
      BY DEF Outstanding
    <3>3. [txn[w] EXCEPT !.pc = "written", !.burned = Outstanding(w)] \in Txn
      BY <3>2, NextTyped
    <3> QED
      BY <2>11, <3>1, <3>3 DEF WriteRows
  <2>12. CASE CommitForgot(w)
    <3>1. txn[w].now \in Time
      BY DEF Txn
    <3>2. LinksAfter(w) \in [Links -> LinkStatus]
      BY DEF LinksAfter, LinkStatus
    <3>3. link' \in [Links -> LinkStatus]
      BY <2>12, <3>2 DEF CommitForgot, LinkStatus
    <3> QED
      BY <2>12, <3>1, <3>3, IdleTyped DEF CommitForgot
  <2>13. CASE CommitRevocation(w)
    <3>1. txn' \in [Workers -> Txn]
      BY <2>13, IdleTyped, NextTyped DEF CommitRevocation
    <3>2. LinksAfter(w) \in [Links -> LinkStatus]
      BY DEF LinksAfter, LinkStatus
    <3>3. stamp' \in [Sessions -> Time \cup {None}]
      BY <2>13 DEF CommitRevocation
    <3>4. uses' \in [Links -> Nat]
      <4>1. \A k \in Links : uses[k] + 1 \in Nat
        OBVIOUS
      <4>2. [uses EXCEPT ![txn[w].link] = @ + 1] \in [Links -> Nat]
        BY <4>1
      <4> QED
        BY <2>13, <4>2 DEF CommitRevocation
    <3>5. password' \in Passwords /\ epoch' \in Time
      BY <2>13 DEF CommitRevocation, Txn
    <3> QED
      BY <2>13, <3>1, <3>2, <3>3, <3>4, <3>5 DEF CommitRevocation
  <2>14. CASE StampAgain(w)
    BY <2>14, IdleTyped DEF StampAgain, Stamped
  <2>15. CASE Abort(w)
    BY <2>15, IdleTyped DEF Abort
  <2> QED
    BY <1>5, <2>1, <2>2, <2>3, <2>4, <2>5, <2>6, <2>7, <2>8, <2>9, <2>10, <2>11, <2>12,
       <2>13, <2>14, <2>15 DEF Step
<1> QED
  BY <1>1, <1>2, <1>3, <1>5 DEF Next

-----------------------------------------------------------------------------
(* Every step keeps the discipline of the links. *)
LEMMA LinksStep == TypeOK /\ LinksAreHeld /\ [Next]_vars => LinksAreHeld'
<1> USE AccountsAssumption DEF TypeOK, user, tokens, Held, Running
<1> SUFFICES ASSUME TypeOK, LinksAreHeld, [Next]_vars PROVE LinksAreHeld'
  OBVIOUS
<1>h. HeldAlone /\ AskedAlone /\ BurntExists /\ UnusedIsUnspent
  BY DEF LinksAreHeld
<1>1. CASE UNCHANGED vars
  BY <1>1 DEF vars, LinksAreHeld, HeldAlone, AskedAlone, BurntExists, UnusedIsUnspent
<1>2. ASSUME UNCHANGED <<link, uses, txn>> PROVE LinksAreHeld'
  BY <1>2, <1>h DEF LinksAreHeld, HeldAlone, AskedAlone, BurntExists, UnusedIsUnspent
<1>3. ASSUME NEW w \in Workers, NEW t, txn' = [txn EXCEPT ![w] = t],
             t.pc # "written", t.op \notin {"reset", "forgot"}, t.link = None,
             UNCHANGED <<link, uses>>
      PROVE  LinksAreHeld'
  <2>1. HeldAlone'
    BY <1>3, <1>h DEF HeldAlone
  <2>2. AskedAlone'
    BY <1>3, <1>h DEF AskedAlone
  <2>3. BurntExists' /\ UnusedIsUnspent'
    BY <1>3, <1>h DEF BurntExists, UnusedIsUnspent
  <2> QED
    BY <2>1, <2>2, <2>3 DEF LinksAreHeld
<1>4. ASSUME NEW w \in Workers, NEW op \in (Signed \cup Revoking) \ {"reset"},
             NEW s \in Sessions \cup {None}, NEW p \in Passwords \cup {None},
             Start(w, op, s, None, p)
      PROVE  LinksAreHeld'
  <2>1. op \notin {"reset", "forgot"}
    BY DEF Signed, Revoking
  <2> DEFINE t == [Idle EXCEPT !.pc = "loaded", !.op = op, !.session = s, !.link = None,
                              !.password = p]
  <2>2. t.pc # "written" /\ t.op = op /\ t.link = None
    BY DEF Idle
  <2>3. txn' = [txn EXCEPT ![w] = t] /\ UNCHANGED <<link, uses>>
    BY <1>4 DEF Start
  <2> HIDE DEF t
  <2> QED
    BY <1>3, <2>1, <2>2, <2>3
<1>5. ASSUME NEW w \in Workers, Step(w) PROVE LinksAreHeld'
  <2>a. {"password", "email", "logout", "staff", "expel", "cli"}
          \subseteq (Signed \cup Revoking) \ {"reset"}
    BY DEF Signed, Revoking
  <2>0. ASSUME NEW s \in Sessions, NEW p \in Passwords, ChangePassword(w, s, p)
        PROVE  LinksAreHeld'
    <3>1. Start(w, "password", s, None, p)
      BY <2>0 DEF ChangePassword
    <3> QED
      BY <3>1, <2>a, <1>4
  <2>1. ASSUME NEW s \in Sessions, ChangeEmail(w, s) \/ Logout(w, s) PROVE LinksAreHeld'
    BY <2>1, <2>a, <1>4 DEF ChangeEmail, Logout
  <2>2. ASSUME NEW p \in Passwords, RevokeByStaff(w) \/ Expel(w) \/ CliReset(w, p)
        PROVE  LinksAreHeld'
    <3>1. CASE Start(w, "staff", None, None, None) \/ Start(w, "expel", None, None, None)
      BY <3>1, <2>a, <1>4
    <3>2. CASE Start(w, "cli", None, None, p)
      BY <3>2, <2>a, <1>4
    <3> QED
      BY <2>2, <3>1, <3>2 DEF RevokeByStaff, Expel, CliReset
  <2>3. ASSUME NEW s \in Sessions, SaveProfile(w, s) PROVE LinksAreHeld'
    <3> DEFINE t == [Idle EXCEPT !.pc = "committed", !.op = "profile", !.session = s]
    <3>1. t.pc # "written" /\ t.op \notin {"reset", "forgot"} /\ t.link = None
      BY DEF Idle
    <3>2. txn' = [txn EXCEPT ![w] = t] /\ UNCHANGED <<link, uses>>
      BY <2>3 DEF SaveProfile
    <3> HIDE DEF t
    <3> QED
      BY <3>1, <3>2, <1>3
  <2>4. ASSUME NEW k \in Links, KickOffReset(w, k) PROVE LinksAreHeld'
    <3>1. HeldAlone'
      BY <2>4, <1>h DEF HeldAlone, KickOffReset, Idle
    <3>2. AskedAlone'
      BY <2>4, <1>h DEF AskedAlone, BurntExists, KickOffReset, Idle
    <3>3. BurntExists' /\ UnusedIsUnspent'
      BY <2>4, <1>h DEF BurntExists, UnusedIsUnspent, KickOffReset, Idle
    <3> QED
      BY <3>1, <3>2, <3>3 DEF LinksAreHeld
  <2>5. ASSUME NEW k \in Links, NEW p \in Passwords, ConsumeToken(w, k, p) PROVE LinksAreHeld'
    <3>1. HeldAlone'
      BY <2>5, <1>h DEF HeldAlone, ConsumeToken, Start, Idle, LinkLocked, Usable
    <3>2. AskedAlone'
      BY <2>5, <1>h DEF AskedAlone, ConsumeToken, Start, Idle, Usable
    <3>3. BurntExists' /\ UnusedIsUnspent'
      BY <2>5, <1>h DEF BurntExists, UnusedIsUnspent, ConsumeToken, Start, Idle
    <3> QED
      BY <3>1, <3>2, <3>3 DEF LinksAreHeld
  <2>6. CASE TakeTime(w)
    <3>1. HeldAlone'
      BY <2>6, <1>h DEF HeldAlone, TakeTime, Txn
    <3>2. AskedAlone'
      BY <2>6, <1>h DEF AskedAlone, TakeTime, Txn
    <3>3. BurntExists' /\ UnusedIsUnspent'
      BY <2>6, <1>h DEF BurntExists, UnusedIsUnspent, TakeTime, Txn
    <3> QED
      BY <3>1, <3>2, <3>3 DEF LinksAreHeld
  <2>7. CASE WriteRows(w)
    <3>1. HeldAlone'
      BY <2>7, <1>h DEF HeldAlone, WriteRows, Txn, LinkLocked
    <3>2. AskedAlone'
      BY <2>7, <1>h DEF AskedAlone, WriteRows, Txn, Outstanding
    <3>3. BurntExists' /\ UnusedIsUnspent'
      BY <2>7, <1>h DEF BurntExists, UnusedIsUnspent, WriteRows, Txn, Outstanding
    <3> QED
      BY <3>1, <3>2, <3>3 DEF LinksAreHeld
  <2>b. \A v \in Workers : txn[v].burned \subseteq Links
    BY DEF Txn
  <2>8. CASE CommitForgot(w)
    <3>a. \A k \in Links : link[k] # "absent" => link'[k] # "absent"
      BY <2>8, <1>h DEF CommitForgot, LinksAfter, AskedAlone
    <3>b. \A v \in Workers : txn'[v] = IF v = w THEN Idle ELSE txn[v]
      BY <2>8 DEF CommitForgot
    <3>1. HeldAlone'
      BY <2>8, <1>h DEF HeldAlone, AskedAlone, CommitForgot, LinksAfter, Idle
    <3>2. AskedAlone'
      BY <2>8, <1>h DEF AskedAlone, CommitForgot, LinksAfter, Idle
    <3>3. BurntExists'
      BY <3>a, <3>b, <2>b, <1>h DEF BurntExists, Idle
    <3>4. UnusedIsUnspent'
      BY <2>8, <1>h DEF UnusedIsUnspent, AskedAlone, CommitForgot, LinksAfter, Idle
    <3> QED
      BY <3>1, <3>2, <3>3, <3>4 DEF LinksAreHeld
  <2>9. CASE CommitRevocation(w)
    <3>a. \A k \in Links :
            link'[k] = IF k \in txn[w].burned \/ Held(w, k) THEN "used" ELSE link[k]
      BY <2>9 DEF CommitRevocation, LinksAfter
    <3>b. \A v \in Workers \ {w} : txn'[v] = txn[v]
      BY <2>9 DEF CommitRevocation
    <3>c. txn[w].pc = "written" /\ txn'[w].pc # "written" /\ txn'[w].op # "reset"
      BY <2>9 DEF CommitRevocation, Idle, Signed
    <3>1. HeldAlone'
      BY <3>a, <3>b, <3>c, <1>h DEF HeldAlone
    <3>2. AskedAlone'
      BY <2>9, <1>h DEF AskedAlone, HeldAlone, CommitRevocation, LinksAfter, Idle
    <3>3. BurntExists'
      BY <3>a, <3>b, <3>c, <2>b, <1>h DEF BurntExists
    <3>4. UnusedIsUnspent'
      BY <2>9, <1>h DEF UnusedIsUnspent, CommitRevocation, LinksAfter
    <3> QED
      BY <3>1, <3>2, <3>3, <3>4 DEF LinksAreHeld
  <2>10. CASE StampAgain(w) \/ Abort(w)
    BY <2>10, <1>3 DEF StampAgain, Abort, Idle
  <2> QED
    BY <1>5, <2>0, <2>1, <2>2, <2>3, <2>4, <2>5, <2>6, <2>7, <2>8, <2>9, <2>10 DEF Step
<1> QED
  BY <1>1, <1>2, <1>5 DEF Next, CliDisable, Login

-----------------------------------------------------------------------------
(* Every step keeps the times fresh. *)
LEMMA TimesStep == TypeOK /\ TimesAreFresh /\ [Next]_vars => TimesAreFresh'
<1> USE AccountsAssumption DEF TypeOK, user, tokens, TimesAreFresh, Timed
<1> SUFFICES ASSUME TypeOK, TimesAreFresh, [Next]_vars PROVE TimesAreFresh'
  OBVIOUS
<1>0. epoch \in Nat /\ clock \in Nat /\ (\A w \in Workers : txn[w].now \in Nat)
        /\ \A s \in Sessions : stamp[s] # None => stamp[s] \in Nat
  BY DEF Time, Txn
<1>1. CASE UNCHANGED vars
  BY <1>1 DEF vars
<1>2. CASE CliDisable
  BY <1>2 DEF CliDisable
<1>3. ASSUME NEW s \in Sessions, Login(s) PROVE TimesAreFresh'
  BY <1>3, <1>0 DEF Login, Stamped
<1>4. ASSUME NEW w \in Workers, NEW t, txn' = [txn EXCEPT ![w] = t],
             t.pc \notin {"timed", "written"}, UNCHANGED <<epoch, stamp, clock>>
      PROVE  TimesAreFresh'
  BY <1>4
<1>5. ASSUME NEW w \in Workers, NEW op, NEW s, NEW k, NEW p, Start(w, op, s, k, p)
      PROVE  TimesAreFresh'
  <2> DEFINE t == [Idle EXCEPT !.pc = "loaded", !.op = op, !.session = s, !.link = k,
                              !.password = p]
  <2>1. t.pc \notin {"timed", "written"}
    BY DEF Idle
  <2>2. txn' = [txn EXCEPT ![w] = t] /\ UNCHANGED <<epoch, stamp, clock>>
    BY <1>5 DEF Start
  <2> HIDE DEF t
  <2> QED
    BY <1>4, <2>1, <2>2
<1>6. ASSUME NEW w \in Workers, Step(w) PROVE TimesAreFresh'
  <2>1. ASSUME NEW s \in Sessions, NEW p \in Passwords, ChangePassword(w, s, p)
        PROVE  TimesAreFresh'
    BY <2>1, <1>5 DEF ChangePassword
  <2>2. ASSUME NEW s \in Sessions, ChangeEmail(w, s) \/ Logout(w, s) PROVE TimesAreFresh'
    BY <2>2, <1>5 DEF ChangeEmail, Logout
  <2>3. ASSUME NEW s \in Sessions, SaveProfile(w, s) PROVE TimesAreFresh'
    BY <2>3, <1>4 DEF SaveProfile, Idle
  <2>4. CASE RevokeByStaff(w) \/ Expel(w) \/ \E p \in Passwords : CliReset(w, p)
    BY <2>4, <1>5 DEF RevokeByStaff, Expel, CliReset
  <2>5. ASSUME NEW k \in Links, NEW p \in Passwords, ConsumeToken(w, k, p)
        PROVE  TimesAreFresh'
    BY <2>5, <1>5 DEF ConsumeToken
  <2>6. ASSUME Tick, txn'[w].now = clock', \A v \in Workers \ {w} : txn'[v] = txn[v],
               UNCHANGED <<epoch, stamp>>
        PROVE  TimesAreFresh'
    BY <2>6, <1>0 DEF Tick
  <2>7. ASSUME NEW k \in Links, KickOffReset(w, k) PROVE TimesAreFresh'
    BY <2>7, <2>6 DEF KickOffReset, Idle
  <2>8. CASE TakeTime(w)
    BY <2>8, <2>6 DEF TakeTime, Txn
  <2>9. CASE WriteRows(w)
    <3>1. \A v \in Workers : txn'[v].now = txn[v].now /\ (Timed(v)' <=> Timed(v))
      BY <2>9 DEF WriteRows, Txn
    <3> QED
      BY <2>9, <3>1 DEF WriteRows
  <2>10. CASE CommitForgot(w)
    BY <2>10, <1>4 DEF CommitForgot, Idle
  <2>11. CASE CommitRevocation(w)
    <3>1. \A v \in Workers \ {w} : txn'[v] = txn[v]
      BY <2>11 DEF CommitRevocation
    <3>2. Timed(w) /\ ~ Timed(w)'
      BY <2>11 DEF CommitRevocation, Idle
    <3>3. epoch' = txn[w].now /\ clock' = clock
      BY <2>11 DEF CommitRevocation
    <3>4. \A s \in Sessions : stamp'[s] \in {stamp[s], None}
      BY <2>11 DEF CommitRevocation
    <3>5. \A v \in Workers : txn[v].now # None
      BY <1>0
    <3> QED
      BY <3>1, <3>2, <3>3, <3>4, <3>5
  <2>12. CASE StampAgain(w)
    BY <2>12, <1>0 DEF StampAgain, Stamped, Idle
  <2>13. CASE Abort(w)
    BY <2>13, <1>4 DEF Abort, Idle
  <2> QED
    BY <1>6, <2>1, <2>2, <2>3, <2>4, <2>5, <2>7, <2>8, <2>9, <2>10, <2>11, <2>12, <2>13
    DEF Step
<1> QED
  BY <1>1, <1>2, <1>3, <1>6 DEF Next

-----------------------------------------------------------------------------
(* The invariant holds in every reachable state. *)
THEOREM Invariance == Spec => []Inv
<1>1. Inv /\ [Next]_vars => Inv'
  BY TypeStep, LinksStep, TimesStep DEF Inv
<1> QED
  BY InitInv, <1>1, PTL DEF Spec

(* The types of Accounts hold for any number of workers, sessions and links. *)
THEOREM AccountsTypeOK == Spec => []TypeOK
<1>1. Inv => TypeOK
  BY DEF Inv
<1> QED
  BY Invariance, <1>1, PTL

(* Only a commit of the request that holds a link adds to its uses. *)
LEMMA UsesStep ==
    ASSUME Inv, [Next]_vars, NEW k \in Links
    PROVE  \/ uses'[k] = uses[k]
           \/ /\ link[k] = "live" /\ uses'[k] = uses[k] + 1
<1> USE DEF user, tokens
<1>1. CASE UNCHANGED vars
  BY <1>1 DEF vars
<1>2. ASSUME NEW w \in Workers, CommitRevocation(w)
      PROVE  \/ uses'[k] = uses[k]
             \/ link[k] = "live" /\ uses'[k] = uses[k] + 1
  BY <1>2 DEF CommitRevocation, Inv, LinksAreHeld, HeldAlone, TypeOK, Held
<1>3. ASSUME NEW w \in Workers, Step(w), ~ CommitRevocation(w) PROVE uses' = uses
  BY <1>3 DEF Step, ChangePassword, ChangeEmail, SaveProfile, Logout, RevokeByStaff, Expel,
     CliReset, KickOffReset, ConsumeToken, Start, TakeTime, WriteRows, CommitForgot,
     StampAgain, Abort
<1> QED
  BY <1>1, <1>2, <1>3 DEF Next, CliDisable, Login

(* A reset link changes the password at most once. *)
THEOREM AccountsSingleUse == Spec => []SingleUse
<1>1. Inv /\ SingleUse /\ [Next]_vars => SingleUse'
  <2> SUFFICES ASSUME Inv, SingleUse, [Next]_vars, NEW k \in Links
               PROVE  uses'[k] <= 1
    BY DEF SingleUse
  <2>1. link[k] = "live" => uses[k] = 0
    BY DEF Inv, LinksAreHeld, UnusedIsUnspent
  <2> QED
    BY <2>1, UsesStep DEF SingleUse
<1>2. Init => SingleUse
  BY DEF Init, SingleUse
<1> QED
  BY Invariance, <1>1, <1>2, PTL DEF Spec

(* A link that was burnt changes the password no more. *)
THEOREM AccountsBurntLinkIsDead == Spec => BurntLinkIsDead
<1>1. Inv /\ [Next]_vars => [\A k \in Links : link[k] = "used" => uses'[k] = uses[k]]_vars
  BY UsesStep
<1> QED
  BY Invariance, <1>1, PTL DEF Spec, BurntLinkIsDead

(* A revocation ends every session of the account. *)
THEOREM AccountsRevocationEndsSessions == Spec => RevocationEndsSessions
<1>1. Inv /\ [Next]_vars =>
        [epoch' # epoch \/ password' # password => \A s \in Sessions : ~ Live(s)']_vars
  <2> USE DEF user, tokens
  <2> SUFFICES ASSUME Inv, Next, epoch' # epoch \/ password' # password,
                      NEW s \in Sessions
               PROVE  stamp'[s] # epoch'
    BY DEF Live, vars
  <2>1. PICK w \in Workers : CommitRevocation(w)
    BY DEF Next, Step, ChangePassword, ChangeEmail, SaveProfile, Logout, RevokeByStaff,
       Expel, CliReset, KickOffReset, ConsumeToken, Start, TakeTime, WriteRows,
       CommitForgot, StampAgain, Abort, CliDisable, Login
  <2>2. stamp[s] # txn[w].now
    BY <2>1 DEF CommitRevocation, Inv, TimesAreFresh, Timed
  <2>3. txn[w].now # None
    BY AccountsAssumption DEF Inv, TypeOK, Txn, Time
  <2> QED
    BY <2>1, <2>2, <2>3 DEF CommitRevocation, Inv, TypeOK
<1> QED
  BY Invariance, <1>1, PTL DEF Spec, RevocationEndsSessions
=============================================================================
