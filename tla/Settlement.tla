----------------------------- MODULE Settlement -----------------------------
(***************************************************************************)
(* What the billing of one order promises to the caterer, the client and   *)
(* the platform, without jobs, webhooks, retries or locks: an order that is *)
(* owed has one claim sent for it, is billed when that claim is in the      *)
(* books, and once billed so is only ever settled; one that is billed by    *)
(* hand has no claim.  Settling an order invites the client to review it,   *)
(* the first time and only then.                                           *)
(***************************************************************************)
EXTENDS Naturals

CONSTANTS Claims

VARIABLES
    stage,      \* "ordered", "owed", "byhand", "billed" or "settled"
    sent,       \* the claims sent to the client
    paid,       \* those the client has paid
    booked,     \* those in the books of the platform
    invited     \* the invitations to review the order

vars == <<stage, sent, paid, booked, invited>>

Init ==
    /\ stage = "ordered" /\ invited = 0
    /\ sent = {} /\ paid = {} /\ booked = {}

(* The caterer delivers: through Stripe, or without it. *)
Deliver ==
    /\ stage = "ordered"
    /\ stage' \in {"owed", "byhand"}
    /\ UNCHANGED <<sent, paid, booked, invited>>

(* One claim, whoever works on it and however often. *)
Send(c) ==
    /\ stage = "owed" /\ sent = {}
    /\ sent' = {c}
    /\ UNCHANGED <<stage, paid, booked, invited>>

(* The client may pay before the claim is in the books, or after the order *)
(* was settled some other way.                                             *)
Pay(c) ==
    /\ c \in sent \ paid
    /\ paid' = paid \cup {c}
    /\ UNCHANGED <<stage, sent, booked, invited>>

Book(c) ==
    /\ stage = "owed" /\ c \in sent /\ booked = {}
    /\ stage' = "billed" /\ booked' = {c}
    /\ UNCHANGED <<sent, paid, invited>>

(* An administrator bills an order that has no claim; from a form that was  *)
(* left open, also one that is settled already.                            *)
BillByHand ==
    /\ stage \in {"byhand", "billed", "settled"} /\ sent = {}
    /\ stage' = "billed"
    /\ UNCHANGED <<sent, paid, booked, invited>>

(* The payment is confirmed, by Stripe or by an administrator. *)
Settle ==
    /\ stage \in {"billed", "settled"}
    /\ stage' = "settled" /\ invited' = 1
    /\ UNCHANGED <<sent, paid, booked>>

Next ==
    \/ Deliver \/ BillByHand \/ Settle
    \/ \E c \in Claims : Send(c) \/ Pay(c) \/ Book(c)

Spec == Init /\ [][Next]_vars
=============================================================================
