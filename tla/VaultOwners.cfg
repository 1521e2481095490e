\* Two owners with two stocks and one id each: whose tokens a step may move, and which.
SPECIFICATION Spec
CONSTANTS
    u1 = u1
    u2 = u2
    s1 = s1
    s2 = s2
    f1 = f1
    f2 = f2
    Usdc = usdc
    NoOrder = NoOrder
    Users = {u1, u2}
    Stocks = {s1, s2}
    Feeds = {f1}
    Decimals <- MCDecimals
    PriceUpdates <- MCOneFeedUpdates
    Pow10 <- MCPow10
    MAX_EXPO = 9
    MAX_DECIMALS = 2
    MAX_AGE = 1
    U16_MAX = 10000
    U64_MAX = 1000
    U128_MAX = 1000000000
    I128_MAX = 1000000
    InitialUsdc = 1
    Amounts = {0, 1}
    Bands = {0}
    Sides = {0, 1}
    Expiries = {1}
    MinOuts = {1}
    MaxOrders = 1
    MaxTime = 0
    MaxBalance = 1
SYMMETRY Symmetry
INVARIANTS FillOnce 
  
