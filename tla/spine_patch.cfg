CONSTANTS
    Clients = {t1, t2}
    Kinds = {"approve", "draft", "patch", "destroy", "crash"}
    Fields = {"baseline", "execution", "working"}
    MaxRev = 2
    MaxTasks = 0
    DataDates = {d1}
    NoRev = NoRev
    NoDate = NoDate
    Free = Free
SPECIFICATION Spec
CHECK_DEADLOCK FALSE
SYMMETRY Symmetric
INVARIANTS OfficialSound
