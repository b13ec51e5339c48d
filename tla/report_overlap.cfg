CONSTANTS
    Clients = {t1, t2}
    Mortal = {t2}
    Kinds = {"create", "approve", "edit", "reject", "delete", "gate", "promote", "bypass", "scope"}
    Scopes = {"company", "intra_unit"}
    Percents = {0, 100}
    Gates <- SomeGates
    MaxReports = 1
    MaxVersions = 1
SPECIFICATION FairSpec
CHECK_DEADLOCK FALSE
INVARIANTS FinalSound
PROPERTIES FinalKept CommitsAgree FinalIsCommitted
