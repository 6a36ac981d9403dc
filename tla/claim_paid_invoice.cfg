SPECIFICATION FairSpec
CONSTANTS
    Jobs = {j1}
    Hooks = {h1}
    Admins = {d1}
    Items = 1
    MaxRetries = 1
    MaxAttempt = 2
    MaxRefusals = 0
    MaxFaults = 1
PROPERTIES PaidInvoiceReachesOrder
CHECK_DEADLOCK FALSE
