SPECIFICATION FairSpec
CONSTANTS
    Jobs = {j1, j2}
    Hooks = {h1, h2}
    Admins = {d1, d2}
    Items = 2
    MaxRetries = 2
    MaxAttempt = 2
    MaxRefusals = 1
    MaxFaults = 2
INVARIANTS TypeOK Inductive OneInvoice RecordedOnce SucceededMeansPaid OneInvite
PROPERTIES ImplementsSettlement DeliveredIsInvoiced PaidReachesOrder
CHECK_DEADLOCK FALSE
