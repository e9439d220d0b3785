SPECIFICATION Spec
CONSTANTS
    c1 = c1
    c2 = c2
    Jobs = {"j1"}
    Contacts = {c1, c2}
    Accounts = {1, 2}
    Targets = {1, 2}
    JobOf <- OneJob
    ContactOf <- OwnContact
    Cap <- CapOwn
    Sessions = {s1, s2}
    Windows = {TRUE}
    Outcomes = {"sent", "rejected", "late"}
    Happenings = {"rest"}
    Unreachable = {}
    MaxCrashes = 1
INVARIANTS
    SentIsTruthful
    OverlapBounded
    CounterKept
PROPERTIES
    SettledStays
    WarningPauses
SYMMETRY Symmetry
