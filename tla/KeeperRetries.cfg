\* One order: retries, lost answers, a crash, expiry; and whether it is tried.
SPECIFICATION FairKeeperSpec
CONSTANTS
    u1 = u1
    s1 = s1
    f1 = f1
    Usdc = usdc
    NoOrder = NoOrder
    NoPick = NoPick
    NoUpdate = NoUpdate
    Users = {u1}
    Stocks = {s1}
    Feeds = {f1}
    Decimals <- MCDecimals
    PriceUpdates <- MCUpdates
    Pow10 <- MCPow10
    EquityFeed <- MCEquityFeed
    OnchainPrices = {50}
    References = {100}
    MinSellUsd = 1
    ARM_TTL = 1
    PROCESSED_CAP = 2000
    RECORDS_CAP = 2
    MAX_EXPO = 9
    MAX_DECIMALS = 2
    MAX_AGE = 1
    U16_MAX = 10000
    U64_MAX = 1000
    U128_MAX = 1000000000
    I128_MAX = 1000000
    InitialUsdc = 0
    Amounts = {1}
    Bands = {5000}
    Sides = {0}
    Expiries = {}
    MinOuts = {}
    MaxOrders = 1
    MaxTime = 1
    MaxBalance = 1
    MaxArms = 1
    MaxTxs = 2
    MaxCrashes = 1
INVARIANTS KeeperTypeOK RetriesFillOnce FillsAreOnRecord
PROPERTIES OpenOrdersAreTried
