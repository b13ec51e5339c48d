CONSTANTS
    Clients = {t1}
    ReportKinds = {"create", "approve"}
    Scopes = {"intra_unit"}
    Percents = {0, 50, 100}
    MaxReports = 1
    MaxVersions = 1
    Kinds = {"plan", "patch", "activate", "destroy", "milestone", "change", "remove", "pay"}
    Statuses = {"suspended"}
    Contracts = {2, 4}
    Terms <- SomeTerms
    Payments = {1}
    MaxPlans = 1
    MaxMilestones = 2
    MaxRefund = 0
SPECIFICATION DeliverySpec
CHECK_DEADLOCK FALSE
INVARIANTS PlanCurrent
PROPERTIES PaidBeforeProgress TermsSound
