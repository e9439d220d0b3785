SPECIFICATION Spec
CONSTANTS
    a1 = a1
    a2 = a2
    NoAccount = NoAccount
    Accounts = {a1}
    Proxies = {1, 2}
    NoProxy = 0
    MaxClients = 2
    Requests = {r1}
    Scenarios <- Editing
    MaxRequests = 6
    MaxFaults = 0
PROPERTY ClientUsesItsProxy
CHECK_DEADLOCK FALSE
