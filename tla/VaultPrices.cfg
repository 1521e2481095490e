\* One user, one order of every shape: what a fill may cost.
SPECIFICATION Spec
CONSTANTS
    u1 = u1
    u2 = u2
    s1 = s1
    s2 = s2
    f1 = f1
    f2 = f2
    Usdc = usdc
    NoOrder = NoOrder
    Users = {u1}
    Stocks = {s1}
    Feeds = {f1, f2}
    Decimals <- MCDecimals
    PriceUpdates <- MCUpdates
    Pow10 <- MCPow10
    MAX_EXPO = 9
    MAX_DECIMALS = 2
    MAX_AGE = 1
    U16_MAX = 10000
    U64_MAX = 1000
    U128_MAX = 1000000000
    I128_MAX = 1000000
    InitialUsdc = 2
    Amounts = {0, 1, 2}
    Bands = {0, 5000, 10000}
    Sides = {0, 1, 2}
    Expiries = {1, 2}
    MinOuts = {0, 1, 2}
    MaxOrders = 1
    MaxTime = 2
    MaxBalance = 3
INVARIANTS TypeOK FillsAreTimely BuysFillFairly SellsFillFairly
