CONSTANTS
    Clients = {t1, t2}
    Kinds = {"plan", "patch", "activate", "destroy", "milestone", "change", "remove", "pay"}
    Statuses = {"suspended"}
    Contracts = {2}
    Terms <- SomeTerms
    Payments = {1}
    MaxPlans = 2
    MaxMilestones = 2
    MaxRefund = 0
SPECIFICATION Spec
CHECK_DEADLOCK FALSE
SYMMETRY Symmetric
INVARIANTS LedgerSound
PROPERTIES NoOverpayment
