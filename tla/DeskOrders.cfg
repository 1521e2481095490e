\* The life of the armed orders of one owner: ticks, re-arming, disarming, faults.
SPECIFICATION Spec
CONSTANTS
    o1 = o1
    o2 = o2
    AAPL = AAPL
    t1 = t1
    t2 = t2
    c1 = c1
    c2 = c2
    Usdc = usdc
    NoOwner = NoOwner
    NoOrder = NoOrder
    NoAsset = NoAsset
    Owners = {o1}
    Tickers = {AAPL}
    Timers = {t1, t2}
    Calls = {}
    Sizes = {1}
    Drifts = {0}
    PROCESSED_CAP = 3
    SCAN_LIMIT = 3
    RECORDS_CAP = 2
    MaxOrders = 3
    MaxTxs = 3
    MaxCrashes = 1
    MaxCredits = 4
INVARIANTS TypeOK SwappedOnce PendingIsWaiting
PROPERTIES LiveRowsStay
