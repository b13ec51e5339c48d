CONSTANTS
    w1 = w1  w2 = w2
    A = A  B = B  C = C  a = a  b = b  c = c
    size = size  note = note  x = x
    Classes = {A, B, C}
    NoClass = NoClass
    Names = {a, b, c}
    NoName = NoName
    Attributes = {size, note}
    Deployments <- MCDeployments
    MaxDay = 2
    MaxVersion = 2
    Parts = {1, 2, 3}
    Values = {1, 2}
    Identifiers = {x}
    MaxNumber = 3
SPECIFICATION Spec
CHECK_DEADLOCK FALSE
INVARIANTS PartsUnique RulesSound
PROPERTIES NumberWithItem OutputKept RequestsEnd
