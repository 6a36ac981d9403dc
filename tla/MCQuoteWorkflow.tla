-------------------------- MODULE MCQuoteWorkflow --------------------------
(* Small instances of QuoteWorkflow for TLC. *)
EXTENDS QuoteWorkflow, TLC

CONSTANTS a, b, c, d

(* Approvals find every caterer eligible. *)
AllOfThem == {Caterers}

(* Caterers and workers are interchangeable. *)
Symmetry == Permutations(Caterers) \cup Permutations(Workers)

(* Four caterers, two of which have already taken a slot while the other   *)
(* two keep a draft: where the code's three slots fill up.  QuoteWorkflow  *)
(* reaches this state by one approval, four drafts, two submissions and    *)
(* edits; the draft of c can be edited once more.                          *)
TwoSlotsTaken ==
    /\ reviewed = TRUE /\ status = "sent_to_caterers" /\ openings = 1
    /\ qrc = [r \in Rows |-> IF r[1] \in {a, b} THEN "transmitted_to_client"
                              ELSE "selected"]
    /\ rank = [r \in Rows |-> IF r[1] = a THEN 1 ELSE IF r[1] = b THEN 2 ELSE 0]
    /\ quote = [q \in Quotes |-> IF q \in {1, 2} THEN "sent" ELSE "draft"]
    /\ author = <<a, b, c, d>>
    /\ source = [q \in Quotes |-> None]
    /\ content = [q \in Quotes |-> IF author[q] = c THEN 0 ELSE MaxEdits]
    /\ ordered = {}
    /\ txn = [w \in Workers |-> Idle]

(* No draft can be added to the four, and no other caterer is eligible. *)
NoFanOut == {}

ThreeSlotsSpec == TwoSlotsTaken /\ [][Next]_vars

SymmetryThreeSlots == Permutations(Workers)
=============================================================================
