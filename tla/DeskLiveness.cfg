\* Two wallets and two orders: deposits are credited, every live order gets its turn.
SPECIFICATION FairSpec
CONSTANTS
    o1 = o1
    o2 = o2
    AAPL = AAPL
    t1 = t1
    t2 = t2
    c1 = c1
    c2 = c2
    Usdc = usdc
    NoOwner = NoOwner
    NoOrder = NoOrder
    NoAsset = NoAsset
    Owners = {o1, o2}
    Tickers = {AAPL}
    Timers = {t1}
    Calls = {}
    Sizes = {1}
    Drifts = {0}
    PROCESSED_CAP = 5
    SCAN_LIMIT = 1
    RECORDS_CAP = 30
    MaxOrders = 2
    MaxTxs = 2
    MaxCrashes = 1
    MaxCredits = 5
PROPERTIES DepositsAreCredited OrdersGetTheirTurn
