CONSTANTS
    w1 = w1  w2 = w2  ra = ra  rb = rb  ia = ia
    ba = ba  bb = bb  a1 = a1  a2 = a2  b1 = b1
    c1 = c1  c2 = c2  n1 = n1  n2 = n2
    MaxDay = 2
    Items = {ia}
    Revs = {ra, rb}
    ItemOf <- MCItemOf
    R0 = R0
    NoDoc = NoDoc
    ItemTargets = {"blocked"}
    Boms = {ba, bb}
    BomRevs = {a1, a2, b1}
    BomOf <- MCBomOf
    Charts = {c1, c2}
    ChartOf <- MCChartOf
    Nodes = {n1, n2}
    Deployments <- MCDeployments
SPECIFICATION Spec
CHECK_DEADLOCK FALSE
INVARIANTS PeriodsDisjoint ReleasedSound
PROPERTIES ReleasedStays ReleaseChecked RequestsEnd ImplementsOfficial
