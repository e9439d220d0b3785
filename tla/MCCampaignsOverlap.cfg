SPECIFICATION Spec
CONSTANTS
    k1 = k1
    k2 = k2
    c1 = c1
    c2 = c2
    Campaigns = {k1, k2}
    Contacts = {c1}
    Accounts = {1}
    Targets = {1, 2}
    CampaignOf <- TwoCampaigns
    ContactOf <- SameContact
    Offset <- AtOnce
    Joining = {k2}
    Excluding = {}
    Cap <- CapTwo
    Workers = {s1, s2}
    Requests = {s1, s2}
    Outcomes = {"done", "late"}
    Happenings = {"stop"}
    MaxHours = 0
    MaxStarts = 3
    MaxServed = 5
    MaxCrashes = 1
INVARIANTS
    DuplicatesAccounted
    StartedIsMaterialized
    JoinedIsMember
SYMMETRY Symmetry
