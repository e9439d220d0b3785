SPECIFICATION Spec
CONSTANTS
    c1 = c1
    c2 = c2
    Jobs = {"j1", "j2"}
    Contacts = {c1}
    Accounts = {1, 2}
    Targets = {1, 2}
    JobOf <- TwoJobs
    ContactOf <- SameContact
    Cap <- CapTwo
    Sessions = {s1}
    Windows = {TRUE, FALSE}
    Outcomes = {"sent", "rejected", "lost"}
    Happenings = {"opt_out", "consent", "health", "rest"}
    Unreachable = {}
    MaxCrashes = 0
INVARIANTS
    TypeOK
    LateSendsBounded
PROPERTY KeepsLedger
