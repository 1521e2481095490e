\* A wallet is switched while the page awaits an address.
SPECIFICATION Spec
CONSTANTS
    o1 = o1
    o2 = o2
    r1 = r1
    r2 = r2
    t1 = t1
    Owners = {o1, o2}
    Tickers = {t1}
    Usdc = usdc
    PROCESSED_CAP = 1
    RECORDS_CAP = 2
    NoOwner = NoOwner
    NoAddress = NoAddress
    NoRequest = NoRequest
    Slots = {r1, r2}
    MaxClicks = 2
    Spelled <- MCSpelled
    MaxFaults = 0
INVARIANT SavedAddressIsOwn
\* A page without a wallet rests when the user does.
CHECK_DEADLOCK FALSE
