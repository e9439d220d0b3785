SPECIFICATION ConversationsSpec
CONSTANTS
    a1 = a1
    p1 = p1
    c1 = c1
    c2 = c2
    w1 = w1
    w2 = w2
    s1 = s1
    s2 = s2
    Accounts = {a1}
    Peers = {p1}
    Named = {p1}
    Contacts = {c1, c2}
    NoContact = NoContact
    Imports <- Imported
    Workers = {w1, w2}
    Requests = {r1}
    Statuses = {"opted_out"}
    Changes <- ContactEdits
    Doings = {"agent", "edit", "save", "resolve", "outreach"}
    MaxPending = 1
    MaxEdits = 1
    MaxCrashes = 1
    ThWorkers = {w1, w2}
    ThRequests = {h1}
    ThMessages = {1, 2}
    ThReplies = {p1}
    NoContent = NoContent
    ThPageSize = 1
    ThMaxThreads = 2
    ThMaxRequests = 1
    ThMaxFaults = 1
    RtWorkers = {w1, w2}
    RtSockets = {s1, s2}
    RtNowhere = RtNowhere
    RtEvents = {1, 2}
    RtMaxFaults = 2
    BtRequests = {s1, s2}
    BtWorkers = {w1, w2}
    BtTexts = {2}
    BtEvents = {1, 2}
    BtMaxRequests = 3
    BtMaxFaults = 1
INVARIANTS
    ConversationsTypeOK
    StopTakesHold
    ThreadsHold
    BroadcastHolds
    BotsHold
PROPERTIES
    OptOutStays
SYMMETRY Symmetry
CHECK_DEADLOCK FALSE
