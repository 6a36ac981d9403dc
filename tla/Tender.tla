------------------------------- MODULE Tender -------------------------------
(***************************************************************************)
(* What the workflow promises to the two sides of a quote request, without *)
(* rows, locks or transactions: the request is open or not, offers appear  *)
(* only while it is open and only once, an award takes one offer that was  *)
(* made, ends the opening and lapses every other offer.                    *)
(***************************************************************************)
EXTENDS Naturals, FiniteSets

CONSTANTS Quotes

VARIABLES
    phase,      \* "review", "open", "awarded" or "closed"
    offers,     \* the offers the client can still take
    offered,    \* every offer ever made
    winners,    \* the offers that became orders
    openings    \* how many times caterers were invited

vars == <<phase, offers, offered, winners, openings>>

Init ==
    /\ \/ phase = "review" /\ openings = 0
       \/ phase = "open" /\ openings = 1
    /\ offers = {} /\ offered = {} /\ winners = {}

(* An administrator invites caterers, again if need be. *)
Invite ==
    /\ phase' = "open" /\ openings' = openings + 1
    /\ UNCHANGED <<offers, offered, winners>>

(* A new offer, which may take the place of an earlier one. *)
Offer(q) ==
    /\ phase = "open"
    /\ q \notin offered
    /\ \E replaced \in Quotes \cup {q} : offers' = (offers \ {replaced}) \cup {q}
    /\ offered' = offered \cup {q}
    /\ UNCHANGED <<phase, winners, openings>>

(* The client turns one offer down; it may be the last one. *)
Decline(q) ==
    /\ offers' = offers \ {q}
    /\ phase' \in {phase, "closed"}
    /\ UNCHANGED <<offered, winners, openings>>

(* The client takes one offer.  It was made, but the client may have been *)
(* declining it in another window at the same time.                       *)
Award(q) ==
    /\ phase = "open"
    /\ q \in offered \ winners
    /\ phase' = "awarded"
    /\ winners' = winners \cup {q}
    /\ offers' = {}
    /\ UNCHANGED <<offered, openings>>

(* An administrator ends the request, with or without lapsing the offers. *)
Close ==
    /\ phase' = "closed"
    /\ offers' \in {offers, {}}
    /\ UNCHANGED <<offered, winners, openings>>

Next ==
    \/ Invite
    \/ Close
    \/ \E q \in Quotes : Offer(q) \/ Decline(q) \/ Award(q)

Spec == Init /\ [][Next]_vars
=============================================================================
