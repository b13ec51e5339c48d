CONSTANTS
    Clients = {t1, t2}
    Kinds = {"approve", "draft", "destroy", "patch", "edit", "amend", "crash"}
    Fields = {"working"}
    MaxRev = 1
    MaxTasks = 1
    DataDates = {d1}
    NoRev = NoRev
    NoDate = NoDate
    Free = Free
SPECIFICATION Spec
CHECK_DEADLOCK FALSE
SYMMETRY Symmetric
PROPERTIES ApprovalPermanent RevisionFrozen
