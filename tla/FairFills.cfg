\* A buy inside the band but above the reference.
SPECIFICATION Spec
CONSTANTS
    Pow10 <- MCPow10
    MAX_EXPO = 9
    MAX_DECIMALS = 2
    MAX_AGE = 1
    U16_MAX = 10000
    U64_MAX = 100000
    U128_MAX = 2000000000
    I128_MAX = 1000000
    MaxPrice = 100
    MaxAtoms = 40
    References = {50}
    Bands = {500}
    Amounts = {97}
    Places = {1}
INVARIANTS FairIsFilled
