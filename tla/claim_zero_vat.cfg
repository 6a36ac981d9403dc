\* A quote at 0 % opened and saved again.
SPECIFICATION Spec
CONSTANTS
    Step = 10
    FineQty = 10
    FinePrice = 10
    Quantities = {100}
    Prices = {1000, 2000}
    Rates = {0, 55, 200}
    LegalRates <- LegalTVARates
    MenuRates <- EditorTVARates
    Commission = 50
    MaxLines = 2
CHECK_DEADLOCK FALSE
PROPERTIES SavingKeepsTheLines
