SPECIFICATION DsSpec
CONSTANTS
    DsAccounts = {1}
    DsContacts = {1}
    DsTicks = {t1}
    DsCap = 1
    DsMaxTicks = 1
    DsMaxFaults = 0
INVARIANT AddedWithConsent
CHECK_DEADLOCK FALSE
