SPECIFICATION Spec
CONSTANTS
    a1 = a1
    p1 = p1
    c1 = c1
    c2 = c2
    Accounts = {a1}
    Peers = {p1}
    Named = {}
    Contacts = {c1, c2}
    NoContact = NoContact
    Imports <- ByPhone
    Workers = {w1}
    Requests = {r1}
    Statuses = {"replied"}
    Changes = {}
    Doings = {"agent"}
    MaxPending = 1
    MaxEdits = 2
    MaxCrashes = 0
INVARIANT OptOutHonored
