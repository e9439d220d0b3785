SPECIFICATION ServicesSpec
CONSTANTS
    a1 = a1
    a2 = a2
    NoAccount = NoAccount
    Accounts = {a1, a2}
    Proxies = {1, 2}
    NoProxy = 0
    MaxClients = 3
    Requests = {q1, q2}
    Scenarios <- LoginsAndProxies
    MaxRequests = 4
    MaxFaults = 1
    phone = phone
    username = username
    othername = othername
    email = email
    otheremail = otheremail
    password = password
    otherpassword = otherpassword
    q1 = q1
    q2 = q2
    DsAccounts = {1, 2}
    DsContacts = {1, 2}
    DsTicks = {q1, q2}
    DsCap = 1
    DsMaxTicks = 2
    DsMaxFaults = 1
    CbRows <- Numbers
    CbPhones = {phone}
    CbUsernames = {username, othername}
    CbNone = CbNone
    CbFiles <- Files
    CbRequests = {q1, q2}
    CbMaxRequests = 3
    StUsers = {1, 2}
    StEmails = {email, otheremail}
    StBootEmail = email
    StPasswords = {password, otherpassword}
    StBootPassword = password
    StNobody = StNobody
    StRequests = {q1, q2}
    StMaxRequests = 3
    RlWorkers = {q1, q2}
    RlLimit = 2
    RlWindow = 2
    RlMaxTime = 3
    RlMaxHits = 6
    RlMaxFaults = 1
    BkJobs = {q1, q2}
    BkKeep = 2
    BkInterval = 2
    BkScopes <- Scopes
    BkMaxTime = 3
    BkMaxJobs = 3
    BkMaxLogins = 2
    BkMaxFaults = 1
    PaIds = {1, 2, 3}
    PaDayLength = 6
INVARIANTS
    ServicesTypeOK
    ProxyTablesAgree
    LoggedInWorks
    ListenersAccounted
    AdditionsHold
    ContactBookHolds
    AdminRemains
    TwiceTheLimit
    LoggedInHasFile
    AutoSpaced
    PacingHolds
PROPERTIES
    QuarantineStands
    EditsStand
    WindowEnds
SYMMETRY Symmetry
CHECK_DEADLOCK FALSE
