SPECIFICATION FairSpec
CONSTANTS
    c1 = c1
    c2 = c2
    Jobs = {"j1"}
    Contacts = {c1, c2}
    Accounts = {1}
    Targets = {1, 2}
    JobOf <- OneJob
    ContactOf <- OwnContact
    Cap <- CapTwo
    Sessions = {s1}
    Windows = {TRUE}
    Outcomes = {"sent"}
    Happenings = {"opt_out", "rest"}
    Unreachable = {}
    MaxCrashes = 0
PROPERTY CounterIsReset
