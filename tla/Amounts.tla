------------------------------- MODULE Amounts -------------------------------
(***************************************************************************)
(* The amounts of one quote, from the editor in the caterer's browser      *)
(* (quote-editor.js) through the stored lines (caterer/requests.py,        *)
(* quotes.py) to the Stripe invoice and the payment (stripe_service.py).   *)
(*                                                                         *)
(* Every amount is an integer.  A form may send finer numbers than the     *)
(* columns keep: FineQty steps of a quantity in each step that is stored,  *)
(* of which Step make one, and FinePrice steps of a price in each cent.    *)
(* A rate counts tenths of a percent.                                      *)
(***************************************************************************)
EXTENDS Integers, Sequences, FiniteSetsExt

CONSTANTS
    Step,                       \* what a stored quantity of one counts: 1000
    FineQty, FinePrice,         \* how much finer the typed ones are
    Quantities, Prices, Rates,  \* what the inputs of a row can hold
    LegalRates,                 \* LEGAL_TVA_RATES
    MenuRates,                  \* TVA_RATES of the editor
    Commission,                 \* Caterer.commission_rate
    MaxLines

ASSUME AmountsAssumption ==
    /\ {Step, FineQty, FinePrice} \subseteq Nat \ {0}
    /\ Quantities \cup Prices \cup Rates \subseteq Nat
    /\ LegalRates \subseteq 0..1000    \* a tax is no more than what it is on
    /\ Commission \in Nat /\ MaxLines \in Nat

VARIABLES
    form,      \* the rows of the editor
    editor,    \* closed, opened, or edited: a row was added, changed or removed
    lines,     \* quote_lines
    total,     \* Quote.total_amount_ht
    quoted,    \* the rows the caterer last saved
    status,    \* draft, sent, billed
    bill       \* the items of the Stripe invoice and the payments row

vars == <<form, editor, lines, total, quoted, status, bill>>

-----------------------------------------------------------------------------
(* a quantity of one, and a cent, in the units of a line's amount *)
Unit == Step * FineQty
Cent == Unit * FinePrice

Line == [qty : Quantities, price : Prices, rate : Rates]

(* the decimal module rounds a half to the even neighbour, the database up *)
HalfEven(n, d) ==
    LET f == n \div d  r == 2 * (n % d)
    IN  IF r > d \/ (r = d /\ f % 2 = 1) THEN f + 1 ELSE f
HalfUp(n, d) == (2 * n + d) \div (2 * d)

(* of a line, Cent to a cent, and its VAT in thousandths of that *)
HT(l) == l.qty * l.price
VAT(l) == HT(l) * l.rate

SumOver(S, ls, Op(_)) == SumFunction([i \in S |-> Op(ls[i])])
Sum(ls, Op(_)) == SumOver(DOMAIN ls, ls, Op)

(* calculate_quote_totals: exact sums, rounded to cents once at the end *)
TotalHT(ls) == HalfEven(Sum(ls, HT), Cent)
TotalTTC(ls) == HalfEven(1000 * Sum(ls, HT) + Sum(ls, VAT), 1000 * Cent)
FeeHT(ls) == HalfEven(Sum(ls, HT) * Commission, 1000 * Cent)
FeeTVA == 0

(* lines_from_dicts, without its upper bounds *)
Valid(ls) == \A i \in DOMAIN ls : ls[i].rate \in LegalRates

(* the columns keep three decimals of a quantity and the cents of a price *)
Stored(l) == [l EXCEPT !.qty = FineQty * HalfUp(@, FineQty),
                       !.price = FinePrice * HalfUp(@, FinePrice)]

(* createLineHTML: a quantity of 0 becomes one, a rate of 0 becomes 10 %,   *)
(* and a rate that is not in the menu leaves its first entry                *)
Shown(l) ==
    [l EXCEPT !.qty = IF @ = 0 THEN Unit ELSE @,
              !.rate = IF @ = 0 THEN 100 ELSE IF @ \in MenuRates THEN @ ELSE 0]

NoBill == [items |-> {}, fee |-> 0, total |-> 0, caterer |-> 0]

Init ==
    /\ form = << >> /\ editor = "closed"
    /\ lines = << >> /\ quoted = << >> /\ total = 0
    /\ status = "draft" /\ bill = NoBill

-----------------------------------------------------------------------------
(* the editor *)

(* quote_new, quote_edit *)
OpenEditor ==
    /\ status = "draft" /\ editor = "closed"
    /\ form' = [i \in DOMAIN lines |-> Shown(lines[i])]
    /\ editor' = "opened"
    /\ UNCHANGED <<lines, total, quoted, status, bill>>

AddLine(l) ==
    /\ editor # "closed" /\ Len(form) < MaxLines
    /\ form' = Append(form, l) /\ editor' = "edited"
    /\ UNCHANGED <<lines, total, quoted, status, bill>>

RemoveLine(i) ==
    /\ editor # "closed"
    /\ form' = [j \in 1..(Len(form) - 1) |-> IF j < i THEN form[j] ELSE form[j + 1]]
    /\ editor' = "edited"
    /\ UNCHANGED <<lines, total, quoted, status, bill>>

(* a wrong variant: the total without the last line *)
TotalForgetsOne(ls) == IF ls = << >> THEN 0 ELSE TotalHT(SubSeq(ls, 1, Len(ls) - 1))

(* the total is that of the rows as they were sent *)
SavedTotal(ls) == TotalHT(ls)

(* quote_create, quote_update *)
SaveQuote ==
    /\ editor # "closed" /\ Valid(form)
    /\ lines' = [i \in DOMAIN form |-> Stored(form[i])]
    /\ total' = SavedTotal(form)
    /\ quoted' = form
    /\ form' = << >> /\ editor' = "closed"
    /\ UNCHANGED <<status, bill>>

(* the quote is sent, accepted and delivered: its lines stay as they are *)
SendQuote ==
    /\ status = "draft" /\ editor = "closed"
    /\ status' = "sent"
    /\ UNCHANGED <<form, editor, lines, total, quoted, bill>>

-----------------------------------------------------------------------------
(* create_invoice_for_order *)

OfRate(ls, r) == {i \in DOMAIN ls : ls[i].rate = r}

(* a wrong variant: a line replaces the earlier ones of its rate *)
LastOfRate(ls, r) == HT(ls[Max(OfRate(ls, r))])

GroupHT(ls, r) == SumOver(OfRate(ls, r), ls, HT)

(* one item for each VAT rate; the fee is one more *)
Items(ls) == {[rate |-> r, cents |-> HalfEven(GroupHT(ls, r), Cent)] :
                 r \in {ls[i].rate : i \in DOMAIN ls}}

(* what Stripe adds up: the tax of each item, 20 % on that of the fee *)
Collected(items, fee) ==
    SumFunction([b \in items |-> b.cents + HalfUp(b.cents * b.rate, 1000)])
        + fee + HalfUp(fee * 200, 1000)

(* split_invoice_amounts *)
SplitInvoiceAmounts(ls) ==
    LET fee == FeeHT(ls) + FeeTVA IN
    [fee |-> fee, total |-> TotalTTC(ls) + fee, caterer |-> TotalTTC(ls) + fee - fee]

CreateInvoice ==
    /\ status = "sent"
    /\ bill' = [items |-> Items(lines), fee |-> SplitInvoiceAmounts(lines).fee,
                total |-> SplitInvoiceAmounts(lines).total,
                caterer |-> SplitInvoiceAmounts(lines).caterer]
    /\ status' = "billed"
    /\ UNCHANGED <<form, editor, lines, total, quoted>>

Next ==
    \/ OpenEditor \/ (\E l \in Line : AddLine(l)) \/ (\E i \in DOMAIN form : RemoveLine(i))
    \/ SaveQuote \/ SendQuote \/ CreateInvoice

Spec == Init /\ [][Next]_vars

-----------------------------------------------------------------------------
Apart(a, b, by) == a - b <= by /\ b - a <= by

(* twice the most that storing a row can add to its amount or take from it *)
Loss(l) ==
    (IF Stored(l).price = l.price THEN 0 ELSE l.qty * FinePrice)
        + (IF Stored(l).qty = l.qty THEN 0 ELSE Stored(l).price * FineQty)

(* The total the client compares offers by is that of the stored lines when *)
(* the columns keep every row as it was typed.  Otherwise they differ by a  *)
(* cent, half a cent for every unit of a price that was rounded, and the    *)
(* price of half a stored step for every quantity that was.                 *)
TotalIsOfTheLines ==
    /\ (\A i \in DOMAIN quoted : Stored(quoted[i]) = quoted[i]) => total = TotalHT(lines)
    /\ Apart(2 * Cent * total, 2 * Cent * TotalHT(lines), 2 * Cent + Sum(quoted, Loss))

(* What Stripe is asked for before tax is what the quote says, although it  *)
(* is rounded once for each VAT rate there and once in all here; what the   *)
(* payment gives to the caterer and to the platform is what it takes; and   *)
(* Stripe collects that, the 20 % it puts on the fee, and the roundings.    *)
StripeBillsTheLines ==
    status = "billed" =>
        /\ Apart(SumFunction([b \in bill.items |-> b.cents]), TotalHT(lines),
                 Cardinality(bill.items))
        /\ bill.caterer = TotalTTC(lines) /\ bill.caterer + bill.fee = bill.total
        /\ Apart(Collected(bill.items, bill.fee), bill.total + HalfUp(bill.fee * 200, 1000),
                 2 * Cardinality(bill.items))

(* The comment of the editor on its rates: 0 % is there for structures      *)
(* without VAT.  A quote opened and saved again as it is keeps its lines.   *)
SavingKeepsTheLines == [][lines' # lines => editor = "edited"]_vars
=============================================================================
