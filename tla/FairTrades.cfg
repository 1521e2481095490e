\* Every on-chain price up to 100 around three references, trades of up to 40 tokens.
SPECIFICATION Spec
CONSTANTS
    Pow10 <- MCPow10
    MAX_EXPO = 9
    MAX_DECIMALS = 2
    MAX_AGE = 1
    U16_MAX = 10000
    U64_MAX = 100000
    U128_MAX = 2000000000
    I128_MAX = 1000000
    MaxPrice = 100
    MaxAtoms = 40
    References = {20, 37, 50}
    Bands = {1, 50, 500, 2500, 5000, 9999}
    Amounts = {3, 8, 40, 97}
    Places = {0, 1}
INVARIANTS FairBuyPasses FairSellPasses CapCoversNotional BetterBuyPasses
    CheapBuyPasses RichSellPasses OffTapeNeverPasses
