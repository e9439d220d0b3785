SPECIFICATION Spec
CONSTANTS
    Runs = {r1}
    Accounts = {a1}
    Groups = {g1}
    Partnered = TRUE
    Stages <- TwoStages
    DayLength = 2
    MinDelay = 1
    NoRun = NoRun
    Workers = {w1}
    Requests = {q1}
    Outcomes = {"done", "late"}
    MaxLag = 1
    MaxEdits = 1
    MaxLosses = 1
INVARIANTS
    TypeOK
    DailyRampHeld
    NoneStranded
PROPERTIES
    GraduationHolds
