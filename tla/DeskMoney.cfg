\* The book of one owner: deposits, overlapping scans, withdrawals and fills.
SPECIFICATION Spec
CONSTANTS
    o1 = o1
    o2 = o2
    AAPL = AAPL
    t1 = t1
    t2 = t2
    c1 = c1
    c2 = c2
    Usdc = usdc
    NoOwner = NoOwner
    NoOrder = NoOrder
    NoAsset = NoAsset
    Owners = {o1}
    Tickers = {AAPL}
    Timers = {t1}
    Calls = {c1}
    Sizes = {1}
    Drifts = {0}
    PROCESSED_CAP = 1
    SCAN_LIMIT = 2
    RECORDS_CAP = 30
    MaxOrders = 1
    MaxTxs = 3
    MaxCrashes = 1
    MaxCredits = 2
INVARIANTS NoOverdraft CreditedOnce DebitsHaveLanded
