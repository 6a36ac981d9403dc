\* None, three units and half a stored step more, at 33.5 cents, a euro and a cent, and a price with
\* a tenth of a cent.  A quantity keeps one digit: TLC's integers have 32 bits.
SPECIFICATION Spec
CONSTANTS
    Step = 10
    FineQty = 10
    FinePrice = 10
    Quantities = {0, 300, 305}
    Prices = {335, 1010, 1007}
    Rates = {0, 55, 200}
    LegalRates <- LegalTVARates
    MenuRates <- EditorTVARates
    Commission = 50
    MaxLines = 2
CHECK_DEADLOCK FALSE
INVARIANTS TotalIsOfTheLines StripeBillsTheLines
