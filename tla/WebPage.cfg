\* Two wallets, two requests in flight: switches, late answers, lost ones, messages posted again.
SPECIFICATION FairSpec
CONSTANTS
    o1 = o1
    o2 = o2
    r1 = r1
    r2 = r2
    t1 = t1
    Owners = {o1, o2}
    Tickers = {t1}
    Usdc = usdc
    PROCESSED_CAP = 1
    RECORDS_CAP = 2
    NoOwner = NoOwner
    NoAddress = NoAddress
    NoRequest = NoRequest
    Slots = {r1, r2}
    MaxClicks = 3
    Spelled <- MCSpelled
    MaxFaults = 1
INVARIANTS PageTypeOK OrdersWereSigned
PROPERTIES SavedAddressStays PendingSettles ExecutedAreListed
\* A page without a wallet rests when the user does.
CHECK_DEADLOCK FALSE
