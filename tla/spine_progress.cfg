CONSTANTS
    Clients = {t1, t2}
    Kinds = {"approve", "draft", "select", "destroy"}
    Fields = {"execution"}
    MaxRev = 2
    MaxTasks = 1
    DataDates = {d1}
    NoRev = NoRev
    NoDate = NoDate
    Free = Free
SPECIFICATION FairSpec
CHECK_DEADLOCK FALSE
INVARIANTS SingleOpenRevision
PROPERTIES Progress
