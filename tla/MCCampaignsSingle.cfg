SPECIFICATION FairSpec
CONSTANTS
    k1 = k1
    k2 = k2
    c1 = c1
    c2 = c2
    Campaigns = {k1}
    Contacts = {c1}
    Accounts = {1, 2}
    Targets = {1, 2}
    CampaignOf <- OneCampaign
    ContactOf <- SameContact
    Offset <- Drip
    Joining = {}
    Excluding = {k1}
    Cap <- CapTwo
    Workers = {s1}
    Requests = {s1}
    Outcomes = {"done", "failed", "warned"}
    Happenings = {"hour", "opt_out", "consent"}
    MaxHours = 1
    MaxStarts = 2
    MaxServed = 2
    MaxCrashes = 1
INVARIANTS
    TypeOK
    DoneIsDrained
    DripKept
PROPERTY CampaignEnds
