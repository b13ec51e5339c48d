CONSTANTS
    Clients = {t1}
    Kinds = {"approve", "draft", "select", "patch", "destroy", "archive", "cpm", "edit", "amend", "crash"}
    Fields = {"baseline", "execution", "working"}
    MaxRev = 2
    MaxTasks = 1
    DataDates = {d1}
    NoRev = NoRev
    NoDate = NoDate
    Free = Free
SPECIFICATION Spec
CHECK_DEADLOCK FALSE
INVARIANTS DeletedStaysOut
PROPERTIES ImplementsOfficial
