------------------------- MODULE FairBandChecksProofs -------------------------
(***************************************************************************)
(* The checks of execute_fill accept what is fair and agree with the tape, *)
(* for every price, band, notional and number of decimals the machine can  *)
(* price.                                                                  *)
(*                                                                         *)
(* Each rounding of the code is a truncating division, so it loses less    *)
(* than its divisor; every proof below multiplies these losses out and     *)
(* compares the products (BuyPassesAt, SellPassesAt).                      *)
(***************************************************************************)
EXTENDS FairBandChecks, FairBandProofs

(* The state of a trade: it is one of the trades asked about.              *)
Trade ==
    /\ nyse \in References /\ band \in Bands /\ usd \in Amounts /\ decimals \in Places
    /\ onchain \in 1..MaxPrice

(* A step moves the on-chain price only.                                   *)
LEMMA IsATrade == Spec => []Trade
<1>1. ASSUME Init PROVE Trade
  <2>1. 1 \in 1..MaxPrice
    BY <1>1, TradeAssumption DEF Init
  <2>2. QED
    BY <1>1, <2>1 DEF Init, Trade
<1>2. Trade /\ [Move]_vars => Trade'
  BY DEF Trade, Move, vars
<1>3. QED
  BY <1>1, <1>2, PTL DEF Spec

-----------------------------------------------------------------------------
(* Arithmetic.                                                             *)

LEMMA MulMono ==
    ASSUME NEW a \in Nat, NEW b \in Nat, NEW c \in Nat, a <= b
    PROVE  a * c <= b * c
  OBVIOUS

LEMMA MulCancel ==
    ASSUME NEW a \in Nat, NEW b \in Nat, NEW c \in Nat, a * c < b * c
    PROVE  a < b
  BY MulMono

(* A quotient is at least every k that divides out, and at most every k    *)
(* whose successor does not.                                               *)
LEMMA DivAtLeast ==
    ASSUME NEW a \in Nat, NEW b \in Nat, b > 0, NEW k \in Nat, k * b <= a
    PROVE  k <= a \div b
<1> DEFINE q == a \div b
<1>1. q \in Nat /\ a < q * b + b
  BY DivBounds
<1> HIDE DEF q
<1>2. k * b < (q + 1) * b
  BY <1>1
<1>3. k < q + 1
  BY <1>1, <1>2, MulCancel
<1>4. QED
  BY <1>1, <1>3 DEF q

LEMMA DivAtMost ==
    ASSUME NEW a \in Nat, NEW b \in Nat, b > 0, NEW k \in Nat, a < (k + 1) * b
    PROVE  a \div b <= k
<1> DEFINE q == a \div b
<1>1. q \in Nat /\ q * b <= a
  BY DivBounds
<1> HIDE DEF q
<1>2. q * b < (k + 1) * b
  BY <1>1
<1>3. q < k + 1
  BY <1>1, <1>2, MulCancel
<1>4. QED
  BY <1>1, <1>3 DEF q

(* The numbers of a trade.                                                 *)
LEMMA TradeNumbers ==
    ASSUME Trade
    PROVE  /\ nyse \in Nat /\ nyse > 0 /\ band \in Nat /\ band > 0 /\ usd \in Nat /\ usd > 0
           /\ onchain \in Nat /\ onchain > 0 /\ onchain <= U64_MAX
           /\ decimals \in 0..MAX_DECIMALS
           /\ Pow10[decimals] \in Nat /\ Pow10[decimals] > 0
           /\ U64_MAX \in Nat /\ U128_MAX \in Nat
           /\ usd * 100 * Pow10[decimals] + U64_MAX <= U128_MAX
           /\ nyse * (10000 + band) <= 10000 * U64_MAX
<1>1. /\ nyse \in 1..MaxPrice /\ band \in 1..U16_MAX /\ usd \in U64 /\ usd # 0
      /\ decimals \in 0..MAX_DECIMALS /\ onchain \in 1..MaxPrice
      /\ MaxPrice \in Nat /\ MaxPrice <= U64_MAX
  BY TradeAssumption DEF Trade
<1>2. U16_MAX \in Nat /\ U64_MAX \in Nat /\ U128_MAX \in Nat /\ usd \in Nat
  BY <1>1, U64IsNat, WidthAssumption
<1>3. Pow10[decimals] \in Nat /\ Pow10[decimals] > 0
  BY <1>1, ScaleIsPositive
<1>4. /\ usd * 100 * Pow10[decimals] + U64_MAX <= U128_MAX
      /\ nyse * (10000 + band) <= 10000 * U64_MAX
  BY MachineAssumption DEF Trade
<1>5. QED
  BY <1>1, <1>2, <1>3, <1>4

-----------------------------------------------------------------------------
(* The band check.                                                         *)

(* A price that fits is the quotient (lib.rs 306-317).                     *)
LEMMA PriceIsQuotient ==
    ASSUME NEW dollars, NEW tokens, NEW d, NEW num, num = dollars * Pow10[d] * 100,
           num <= U128_MAX, num \div tokens <= U64_MAX
    PROVE  PriceOf(dollars, tokens, d) = num \div tokens
  BY DEF PriceOf

(* A buy passes when its price rounds down to some k inside the band.      *)
LEMMA BuyPassesAt ==
    ASSUME Trade, NEW dollars \in Nat, dollars > 0, dollars <= usd,
           NEW tokens \in Nat, tokens > 0,
           NEW k \in Nat, k * 10000 <= nyse * (10000 + band),
           dollars * Pow10[decimals] * 100 < (k + 1) * tokens
    PROVE  Passes(BUY, dollars, tokens)
<1> DEFINE s == Pow10[decimals]
           num == dollars * s * 100
           p == PriceOf(dollars, tokens, decimals)
<1>1. /\ s \in Nat /\ usd \in Nat /\ U64_MAX \in Nat /\ U128_MAX \in Nat
      /\ usd * 100 * s + U64_MAX <= U128_MAX
      /\ nyse * (10000 + band) <= 10000 * U64_MAX
      /\ decimals \in 0..MAX_DECIMALS /\ nyse * (10000 + band) \in Nat
  BY TradeNumbers
<1>2. num < (k + 1) * tokens
  OBVIOUS
<1> HIDE DEF s
<1>3. num \in Nat /\ num <= U128_MAX
  <2>1. dollars * (s * 100) <= usd * (s * 100)
    BY <1>1, MulMono
  <2>2. QED
    BY <1>1, <2>1
<1>4. k <= U64_MAX
  BY <1>1
<1> HIDE DEF num
<1>5. num \div tokens \in Nat /\ num \div tokens <= k
  BY <1>2, <1>3, DivBounds, DivAtMost
<1>6. p = num \div tokens
  <2>1. num = dollars * Pow10[decimals] * 100
    BY DEF num, s
  <2>2. num \div tokens <= U64_MAX
    BY <1>1, <1>4, <1>5
  <2>3. QED
    BY <1>3, <2>1, <2>2, PriceIsQuotient
<1> HIDE DEF p
<1>7. p \in Nat /\ p <= k /\ p # Err
  BY <1>5, <1>6 DEF Err
<1>8. implied_price_e8(BUY, dollars, tokens, decimals) = p
  BY <1>1, DecimalsAssumption DEF implied_price_e8, p
<1>9. p * 10000 <= nyse * (10000 + band)
  BY <1>1, <1>7
<1>10. QED
  BY <1>7, <1>8, <1>9 DEF Passes, in_band

(* What a buy that passes says of its price.                               *)
LEMMA BuyPassed ==
    ASSUME Trade, NEW dollars \in Nat, NEW tokens \in Nat, Passes(BUY, dollars, tokens)
    PROVE  /\ tokens > 0 /\ dollars > 0
           /\ \E k \in Nat : /\ k * 10000 <= nyse * (10000 + band)
                             /\ k * tokens <= dollars * Pow10[decimals] * 100
                             /\ dollars * Pow10[decimals] * 100 < (k + 1) * tokens
<1> DEFINE p == PriceOf(dollars, tokens, decimals)
<1>1. /\ tokens > 0 /\ dollars > 0 /\ p # Err /\ p * 10000 <= nyse * (10000 + band)
  BY DEF Passes, implied_price_e8, in_band, BUY
<1>2. /\ p \in U64 /\ p * tokens <= dollars * Pow10[decimals] * 100
      /\ dollars * Pow10[decimals] * 100 < p * tokens + tokens
  BY <1>1, PriceOfBounds, TradeNumbers
<1> HIDE DEF p
<1>3. p \in Nat /\ p * tokens + tokens = (p + 1) * tokens
  BY <1>2, U64IsNat
<1>4. QED
  BY <1>1, <1>2, <1>3

(* A sell passes when its price is at least some k inside the band.        *)
LEMMA SellPassesAt ==
    ASSUME Trade, band < 10000, NEW received \in Nat, received > 0,
           NEW tokens \in Nat, tokens > 0,
           received * Pow10[decimals] * 100 <= U128_MAX,
           received * Pow10[decimals] * 100 <= U64_MAX * tokens,
           NEW k \in Nat, k * 10000 >= nyse * (10000 - band),
           k * tokens <= received * Pow10[decimals] * 100
    PROVE  Passes(SELL, received, tokens)
<1> DEFINE num == received * Pow10[decimals] * 100
           p == PriceOf(received, tokens, decimals)
<1>1. /\ num \in Nat /\ U64_MAX \in Nat /\ decimals \in 0..MAX_DECIMALS
      /\ nyse \in Nat /\ band \in Nat
  BY TradeNumbers
<1>2. num <= U128_MAX /\ num <= U64_MAX * tokens /\ k * tokens <= num
  OBVIOUS
<1> HIDE DEF num
<1> DEFINE q == num \div tokens
<1>3. p = q /\ p \in Nat /\ p # Err /\ k <= p
  <2>1. num < (U64_MAX + 1) * tokens
    BY <1>1, <1>2
  <2>2. q \in Nat /\ q <= U64_MAX /\ k <= q
    BY <1>1, <1>2, <2>1, DivBounds, DivAtMost, DivAtLeast
  <2>3. p = q
    BY <1>2, <2>2, PriceIsQuotient DEF num
  <2> HIDE DEF q, p
  <2>4. QED
    BY <2>2, <2>3 DEF Err
<1> HIDE DEF p
<1>5. implied_price_e8(SELL, tokens, received, decimals) = p
  BY <1>1, DecimalsAssumption DEF implied_price_e8, BUY, SELL, p
<1>6. p * 10000 >= nyse * (10000 - band)
  BY <1>1, <1>3
<1>7. QED
  BY <1>3, <1>5, <1>6 DEF Passes, in_band, BUY, SELL

-----------------------------------------------------------------------------
(* What is fair is accepted.                                               *)

(* A buy at or below nyse * (1 + band) is not refused (lib.rs 356-362).    *)
THEOREM FairBuysPass == Spec => []FairBuyPasses
<1>1. Trade => FairBuyPasses
  <2> SUFFICES ASSUME Trade, NEW tokens \in Atoms,
                      usd * Pow10[decimals] * 100 * 10000 <= nyse * (10000 + band) * tokens
               PROVE  Passes(BUY, usd, tokens)
    BY DEF FairBuyPasses
  <2> DEFINE limit == nyse * (10000 + band)
             k == limit \div 10000
             num == usd * Pow10[decimals] * 100
  <2>1. limit \in Nat /\ usd \in Nat /\ usd > 0 /\ tokens \in Nat /\ tokens > 0 /\ num \in Nat
    BY TradeNumbers, TradeAssumption DEF Atoms
  <2>2. num * 10000 <= limit * tokens
    OBVIOUS
  <2> HIDE DEF limit, num
  <2>3. k \in Nat /\ k * 10000 <= limit /\ limit < k * 10000 + 10000
    BY <2>1, DivBounds
  <2> HIDE DEF k
  <2>4. num < (k + 1) * tokens
    <3>1. limit * tokens < ((k + 1) * 10000) * tokens
      BY <2>1, <2>3
    <3>2. num * 10000 < ((k + 1) * tokens) * 10000
      BY <2>1, <2>2, <2>3, <3>1
    <3>3. QED
      BY <2>1, <2>3, <3>2
  <2>5. QED
    BY <2>1, <2>3, <2>4, BuyPassesAt DEF limit, num
<1>2. QED
  BY <1>1, IsATrade, PTL

(* A sell at or above the floor price, rounded up, is not refused          *)
(* (lib.rs 363-368).                                                       *)
THEOREM FairSellsPass == Spec => []FairSellPasses
<1>1. Trade => FairSellPasses
  <2> DEFINE limit == nyse * (10000 - band)
             k == (limit + 9999) \div 10000
             num == usd * Pow10[decimals] * 100
  <2> SUFFICES ASSUME Trade, NEW tokens \in Atoms,
                      band < 10000, Narrows(usd, tokens), num >= k * tokens
               PROVE  Passes(SELL, usd, tokens)
    BY DEF FairSellPasses
  <2>1. /\ limit \in Nat /\ usd \in Nat /\ usd > 0 /\ tokens \in Nat /\ tokens > 0
        /\ U64_MAX \in Nat
    BY TradeNumbers, TradeAssumption DEF Atoms
  <2>2. num \in Nat /\ num <= U128_MAX /\ num <= U64_MAX * tokens
    BY TradeNumbers DEF Narrows
  <2>3. k * tokens <= num
    BY <2>1, <2>2, DivBounds
  <2> HIDE DEF limit, num
  <2>4. k \in Nat /\ limit + 9999 < k * 10000 + 10000
    BY <2>1, DivBounds
  <2> HIDE DEF k
  <2>5. k * 10000 >= limit
    BY <2>1, <2>4
  <2>6. QED
    BY <2>1, <2>2, <2>3, <2>4, <2>5, SellPassesAt DEF limit, num
<1>2. QED
  BY <1>1, IsATrade, PTL

(* The price floor of a sell is a price no higher than the reference.      *)
LEMMA FloorBounds ==
    ASSUME Trade, band < 10000
    PROVE  /\ FloorE8(nyse, band) \in Nat
           /\ FloorE8(nyse, band) * 10000 <= nyse * (10000 - band)
           /\ FloorE8(nyse, band) <= nyse
           /\ FloorE8(nyse, band) <= U64_MAX
<1> DEFINE limit == nyse * (10000 - band)
           floor == limit \div 10000
<1>1. limit \in Nat /\ nyse \in Nat /\ nyse <= U64_MAX /\ limit <= nyse * 10000 /\ U64_MAX \in Nat
  BY TradeNumbers
<1>2. FloorE8(nyse, band) = floor
  BY DEF FloorE8
<1> HIDE DEF limit
<1>3. floor \in Nat /\ floor * 10000 <= limit
  BY <1>1, DivBounds
<1> HIDE DEF floor
<1>4. floor <= nyse
  BY <1>1, <1>3
<1>5. QED
  BY <1>1, <1>2, <1>3, <1>4 DEF limit

(* The cap of a sell is the notional at the floor price, rounded up.       *)
LEMMA CapCovers ==
    ASSUME Trade, band < 10000, FloorE8(nyse, band) > 0, Narrows(usd, FloorE8(nyse, band)),
           NEW tokens \in Nat,
           tokens * FloorE8(nyse, band)
               <= usd * 100 * Pow10[decimals] + (FloorE8(nyse, band) - 1)
    PROVE  /\ max_sell_native(usd, nyse, band, decimals) # Err
           /\ tokens <= max_sell_native(usd, nyse, band, decimals)
<1> DEFINE floor == FloorE8(nyse, band)
           cap == usd * 100 * Pow10[decimals]
           num == cap + (floor - 1)
           max == max_sell_native(usd, nyse, band, decimals)
<1>1. /\ floor \in Nat /\ floor > 0 /\ floor <= U64_MAX /\ U64_MAX \in Nat
      /\ usd > 0 /\ nyse > 0 /\ decimals <= MAX_DECIMALS
      /\ cap \in Nat /\ cap + U64_MAX <= U128_MAX
  BY TradeNumbers, FloorBounds, DecimalsAssumption
<1>2. cap <= U64_MAX * floor /\ tokens * floor <= num
  BY DEF Narrows
<1>3. max = IF num <= U128_MAX /\ num \div floor <= U64_MAX THEN num \div floor ELSE Err
  BY <1>1 DEF max_sell_native
<1> HIDE DEF floor, cap, max
<1>4. num \in Nat /\ num <= U128_MAX /\ num < (U64_MAX + 1) * floor
  <2>1. (U64_MAX + 1) * floor = U64_MAX * floor + floor /\ U64_MAX * floor \in Nat
    BY <1>1
  <2>2. num \in Nat /\ num < U64_MAX * floor + floor
    BY <1>1, <1>2, <2>1
  <2>3. num <= U128_MAX
    BY <1>1, TradeNumbers
  <2>4. QED
    BY <2>1, <2>2, <2>3
<1> HIDE DEF num
<1> DEFINE q == num \div floor
<1>5. q \in Nat /\ q <= U64_MAX /\ tokens <= q
  BY <1>1, <1>2, <1>4, DivBounds, DivAtMost, DivAtLeast
<1> HIDE DEF q
<1>6. max = q
  BY <1>3, <1>4, <1>5 DEF q
<1>7. QED
  BY <1>5, <1>6 DEF max, Err

(* The cap does not refuse shares worth no more than the notional at the   *)
(* floor price (lib.rs 335-354).                                           *)
THEOREM CapLetsTheNotionalThrough == Spec => []CapCoversNotional
<1>1. Trade => CapCoversNotional
  <2> SUFFICES ASSUME Trade, band < 10000, FloorE8(nyse, band) > 0,
                      Narrows(usd, FloorE8(nyse, band)), NEW tokens \in Atoms,
                      tokens * FloorE8(nyse, band) <= usd * 100 * Pow10[decimals]
               PROVE  tokens <= max_sell_native(usd, nyse, band, decimals)
    BY DEF CapCoversNotional
  <2>1. tokens \in Nat /\ usd * 100 * Pow10[decimals] \in Nat /\ FloorE8(nyse, band) \in Nat
    BY TradeNumbers, FloorBounds, TradeAssumption DEF Atoms
  <2>2. tokens * FloorE8(nyse, band) <= usd * 100 * Pow10[decimals] + (FloorE8(nyse, band) - 1)
    BY <2>1
  <2>3. QED
    BY <2>1, <2>2, CapCovers
<1>2. QED
  BY <1>1, IsATrade, PTL

(* A buy that pays less or gets more than the one checked passes too       *)
(* (lib.rs 124-130, 173-183).                                              *)
THEOREM BetterBuysPass == Spec => []BetterBuyPasses
<1>1. Trade => BetterBuyPasses
  <2> SUFFICES ASSUME Trade, NEW tokens \in Atoms, Passes(BUY, usd, tokens)
               PROVE  /\ Passes(BUY, usd, tokens + 1)
                      /\ usd > 1 => Passes(BUY, usd - 1, tokens)
    BY DEF BetterBuyPasses
  <2> DEFINE s == Pow10[decimals]
  <2>1. /\ tokens \in Nat /\ tokens > 0 /\ usd \in Nat /\ usd > 0 /\ s \in Nat
    BY TradeNumbers, TradeAssumption DEF Atoms
  <2>2. PICK k \in Nat : /\ k * 10000 <= nyse * (10000 + band)
                         /\ usd * s * 100 < (k + 1) * tokens
    BY <2>1, BuyPassed
  <2>3. usd * s * 100 < (k + 1) * (tokens + 1) /\ (usd - 1) * s * 100 <= usd * s * 100
    <3> HIDE DEF s
    <3>1. (k + 1) * tokens <= (k + 1) * (tokens + 1)
      BY <2>1
    <3>2. usd * s * 100 \in Nat
      BY <2>1
    <3>3. usd * s * 100 < (k + 1) * (tokens + 1)
      BY <2>1, <2>2, <3>1, <3>2
    <3>4. (usd - 1) * s * 100 <= usd * s * 100
      BY <2>1
    <3>5. QED
      BY <3>3, <3>4
  <2>4. Passes(BUY, usd, tokens + 1)
    BY <2>1, <2>2, <2>3, BuyPassesAt
  <2>5. ASSUME usd > 1 PROVE Passes(BUY, usd - 1, tokens)
    <3>1. (usd - 1) * s * 100 < (k + 1) * tokens
      <4> HIDE DEF s
      <4>1. usd * s * 100 \in Nat /\ (usd - 1) * s * 100 \in Int /\ (k + 1) * tokens \in Nat
        BY <2>1
      <4>2. QED
        BY <2>2, <2>3, <4>1
    <3>2. usd - 1 \in Nat /\ usd - 1 > 0 /\ usd - 1 <= usd
      BY <2>1, <2>5
    <3>3. QED
      BY <2>1, <2>2, <3>1, <3>2, BuyPassesAt
  <2>6. QED
    BY <2>4, <2>5
<1>2. QED
  BY <1>1, IsATrade, PTL

-----------------------------------------------------------------------------
(* The trade the desk submits agrees with the tape.                        *)

(* The tape quotes the prints of the trade.                                *)
LEMMA TapeOfTrade ==
    ASSUME Trade
    PROVE  /\ Premium(tape) = (onchain - nyse) * 10000
           /\ verdict(tape, band) = "cheap" => onchain * 10000 <= nyse * (10000 - band)
           /\ verdict(tape, band) = "rich" => onchain * 10000 >= nyse * (10000 + band)
<1>1. /\ nyse \in Nat /\ nyse > 0 /\ onchain \in Nat /\ onchain > 0 /\ band \in Nat
  BY TradeNumbers
<1>2. tape.nyse = nyse /\ tape.onchain = onchain
  BY <1>1 DEF tape, buildTape, Or, NoPrint
<1>3. Premium(tape) = (onchain - nyse) * 10000
  BY <1>2 DEF Premium
<1>4. verdict(tape, band) = IF (onchain - nyse) * 10000 <= -(band * nyse) THEN "cheap"
                            ELSE IF (onchain - nyse) * 10000 >= band * nyse THEN "rich"
                            ELSE "inside"
  BY <1>1, <1>2, <1>3 DEF verdict, NoPrint
<1>5. QED
  BY <1>1, <1>3, <1>4

(* What the venue pays for a buy, rounded down (jupiter.ts 60-75).         *)
LEMMA BuyPays ==
    ASSUME Trade
    PROVE  /\ Paid(BUY) \in Nat
           /\ Paid(BUY) * onchain <= usd * Pow10[decimals] * 100
           /\ usd * Pow10[decimals] * 100 < (Paid(BUY) + 1) * onchain
<1> DEFINE cap == usd * 100 * Pow10[decimals]
           paid == cap \div onchain
<1>1. cap \in Nat /\ onchain \in Nat /\ onchain > 0 /\ cap = usd * Pow10[decimals] * 100
  BY TradeNumbers
<1>2. Paid(BUY) = paid
  BY DEF Paid, Amount, InAmount, OutAmount
<1> HIDE DEF cap
<1>3. paid \in Nat /\ paid * onchain <= cap /\ cap < paid * onchain + onchain
  BY <1>1, DivBounds
<1> HIDE DEF paid
<1>4. cap < (paid + 1) * onchain
  BY <1>1, <1>3
<1>5. QED
  BY <1>1, <1>2, <1>3, <1>4

(* What a sell debits, rounded to the nearest, and what the venue pays for *)
(* it, rounded down.                                                       *)
LEMMA SellPays ==
    ASSUME Trade
    PROVE  /\ Amount(SELL) \in Nat /\ Paid(SELL) \in Nat
           /\ 2 * (Amount(SELL) * onchain) <= 2 * (usd * 100 * Pow10[decimals]) + onchain
           /\ Paid(SELL) * (100 * Pow10[decimals]) <= Amount(SELL) * onchain
           /\ Amount(SELL) * onchain < (Paid(SELL) + 1) * (100 * Pow10[decimals])
<1> DEFINE cap == usd * 100 * Pow10[decimals]
           s == 100 * Pow10[decimals]
           num == 2 * usd * 100 * Pow10[decimals] + onchain
           amount == num \div (2 * onchain)
           paid == (amount * onchain) \div s
<1>1. /\ num \in Nat /\ num = 2 * cap + onchain /\ onchain \in Nat /\ onchain > 0
      /\ 2 * onchain \in Nat /\ 2 * onchain > 0
      /\ s \in Nat /\ s > 0 /\ cap \in Nat
  BY TradeNumbers
<1>2. Amount(SELL) = amount /\ Paid(SELL) = paid
  BY DEF Paid, Amount, InAmount, OutAmount, BUY, SELL
<1> HIDE DEF num, s, cap
<1>3. amount \in Nat /\ amount * (2 * onchain) <= num
  BY <1>1, DivBounds
<1> HIDE DEF amount
<1>4. amount * onchain \in Nat /\ 2 * (amount * onchain) <= 2 * cap + onchain
  BY <1>1, <1>3
<1>5. paid \in Nat /\ paid * s <= amount * onchain /\ amount * onchain < paid * s + s
  BY <1>1, <1>4, DivBounds
<1> HIDE DEF paid
<1>6. amount * onchain < (paid + 1) * s
  BY <1>1, <1>5
<1>7. QED
  BY <1>2, <1>3, <1>4, <1>5, <1>6 DEF s, cap

(* The min_out the keeper asks for: the quote less the band.               *)
LEMMA AskedBounds ==
    ASSUME Trade, NEW side, Paid(side) \in Nat, band < 10000
    PROVE  /\ Asked(side) \in Nat /\ Asked(side) <= Paid(side)
           /\ Paid(side) * (10000 - band) <= Asked(side) * 10000 + 9999
<1> DEFINE num == Paid(side) * (10000 - band)
           asked == num \div 10000
<1>1. num \in Nat /\ band \in Nat /\ band > 0 /\ num <= Paid(side) * 10000
  BY TradeNumbers
<1>2. Asked(side) = asked
  BY <1>1 DEF Asked, MinOut, Paid, Threshold, Slippage
<1> HIDE DEF num
<1>3. asked \in Nat /\ asked * 10000 <= num /\ num < asked * 10000 + 10000
  BY <1>1, DivBounds
<1> HIDE DEF asked
<1>4. asked <= Paid(side)
  BY <1>1, <1>3
<1>5. QED
  BY <1>1, <1>2, <1>3, <1>4 DEF num

(* CHEAP -> FILL: the min_out of a cheap buy implies a price the program   *)
(* accepts (desk.ts 363, lib.rs 124-130).                                  *)
THEOREM CheapBuysPass == Spec => []CheapBuyPasses
<1>1. Trade => CheapBuyPasses
  <2> DEFINE m == Asked(BUY)
             paid == Paid(BUY)
             num == usd * Pow10[decimals] * 100
             limit == nyse * (10000 + band)
             k == limit \div 10000
  <2> SUFFICES ASSUME Trade, verdict(tape, band) = "cheap", Fine(m, 2)
               PROVE  Passes(BUY, usd, m)
    BY DEF CheapBuyPasses
  <2>1. /\ nyse \in Nat /\ nyse > 0 /\ onchain \in Nat /\ onchain > 0
        /\ band \in Nat /\ usd \in Nat /\ usd > 0 /\ num \in Nat /\ limit \in Nat
    BY TradeNumbers
  <2>2. onchain * 10000 <= nyse * (10000 - band)
    BY TapeOfTrade
  <2>3. band < 10000
    BY <2>1, <2>2
  <2>4. paid \in Nat /\ num < (paid + 1) * onchain
    BY BuyPays
  <2>5. m \in Nat /\ paid * (10000 - band) <= m * 10000 + 9999
    BY <2>3, <2>4, AskedBounds
  <2>6. m * band >= 20000
    BY DEF Fine
  <2> HIDE DEF m, paid, num
  <2>7. m > 0
    BY <2>1, <2>5, <2>6
  <2>8. num * 10000 < limit * m
    <3>1. num * 10000 < (paid + 1) * (onchain * 10000)
      BY <2>1, <2>4
    <3>2. (paid + 1) * (onchain * 10000) <= (paid + 1) * (nyse * (10000 - band))
      BY <2>1, <2>2, <2>3, <2>4
    <3>3. (paid + 1) * (10000 - band) <= m * (10000 + band)
      BY <2>1, <2>3, <2>4, <2>5, <2>6
    <3>4. nyse * ((paid + 1) * (10000 - band)) <= nyse * (m * (10000 + band))
      <4>1. (paid + 1) * (10000 - band) \in Nat /\ m * (10000 + band) \in Nat
        BY <2>1, <2>3, <2>4, <2>5
      <4>2. QED
        BY <2>1, <3>3, <4>1, MulMono
    <3>5. (paid + 1) * (nyse * (10000 - band)) <= limit * m
      BY <2>1, <2>3, <2>4, <2>5, <3>4
    <3>6. QED
      BY <2>1, <2>3, <2>4, <2>5, <3>1, <3>2, <3>5
  <2> HIDE DEF limit
  <2>9. k \in Nat /\ k * 10000 <= limit /\ limit < (k + 1) * 10000
    BY <2>1, DivBounds
  <2> HIDE DEF k
  <2>10. num < (k + 1) * m
    <3>1. limit * m < ((k + 1) * 10000) * m
      BY <2>5, <2>7, <2>9, <2>1
    <3>2. num * 10000 < ((k + 1) * m) * 10000
      BY <2>1, <2>5, <2>8, <2>9, <3>1
    <3>3. QED
      BY <2>1, <2>5, <2>9, <3>2
  <2>11. QED
    BY <2>1, <2>5, <2>7, <2>9, <2>10, BuyPassesAt DEF num, limit
<1>2. QED
  BY <1>1, IsATrade, PTL

(* The min_out of a rich sell, rounded twice, is still worth the floor     *)
(* price: what the tape adds above the reference exceeds what the          *)
(* roundings take.                                                         *)
LEMMA RichAsked ==
    ASSUME NEW n \in Nat, NEW c \in Nat, NEW b \in Nat, b < 10000,
           NEW A \in Nat, NEW P \in Nat, NEW m \in Nat, NEW S \in Nat,
           c * 10000 >= n * (10000 + b),
           A * c < (P + 1) * S,
           P * (10000 - b) <= m * 10000 + 9999,
           m * b >= 40000,
           n * b * (10000 - b) >= 3 * 10000 * 10000
    PROVE  (n * (10000 - b) + 9999) * A <= 10000 * (m * S)
<1> DEFINE q == 10000 - b
<1>1. q \in Nat /\ q > 0 /\ q + b = 10000
  OBVIOUS
<1>2. P * q <= m * 10000 + 9999 /\ n * b * q >= 3 * 10000 * 10000
  OBVIOUS
<1> HIDE DEF q
<1>3. 2 * ((P + 1) * q) <= m * (20000 + b)
  BY <1>1, <1>2
<1>4. 2 * (A * c * q) <= m * S * (20000 + b)
  <2>1. (A * c) * q <= ((P + 1) * S) * q
    BY <1>1
  <2>2. (2 * ((P + 1) * q)) * S <= (m * (20000 + b)) * S
    <3>1. 2 * ((P + 1) * q) \in Nat /\ m * (20000 + b) \in Nat
      BY <1>1
    <3>2. QED
      BY <1>3, <3>1, MulMono
  <2>3. QED
    BY <1>1, <2>1, <2>2
<1>5. 2 * (A * q * (n * (10000 + b))) <= 10000 * (m * S) * (20000 + b)
  <2>1. (n * (10000 + b)) * (A * q) <= (c * 10000) * (A * q)
    <3>1. n * (10000 + b) \in Nat /\ c * 10000 \in Nat /\ A * q \in Nat
      BY <1>1
    <3>2. QED
      BY <3>1, MulMono
  <2>2. (c * 10000) * (A * q) = 10000 * (A * c * q)
    BY <1>1
  <2>3. QED
    BY <1>1, <1>4, <2>1, <2>2
<1>6. (20000 + b) * (n * q + 9999) <= 2 * (q * (n * (10000 + b)))
  <2>1. 2 * (q * (n * (10000 + b))) = (20000 + b) * (n * q) + n * b * q
    BY <1>1
  <2>2. (20000 + b) * 9999 <= n * b * q
    BY <1>1, <1>2
  <2>3. QED
    BY <1>1, <2>1, <2>2
<1>7. ((n * q + 9999) * A) * (20000 + b) <= (10000 * (m * S)) * (20000 + b)
  <2>1. ((20000 + b) * (n * q + 9999)) * A <= (2 * (q * (n * (10000 + b)))) * A
    <3>1. (20000 + b) * (n * q + 9999) \in Nat /\ 2 * (q * (n * (10000 + b))) \in Nat
      BY <1>1
    <3>2. QED
      BY <1>6, <3>1, MulMono
  <2>2. (2 * (q * (n * (10000 + b)))) * A = 2 * (A * q * (n * (10000 + b)))
    BY <1>1
  <2>3. QED
    BY <1>1, <1>5, <2>1, <2>2
<1>8. (n * q + 9999) * A <= 10000 * (m * S)
  <2>1. (n * q + 9999) * A \in Nat /\ 10000 * (m * S) \in Nat /\ 20000 + b \in Nat
        /\ 20000 + b > 0
    BY <1>1
  <2>2. \A x, y, z \in Nat : z > 0 /\ x * z <= y * z => x <= y
    OBVIOUS
  <2>3. QED
    BY <1>7, <2>1, <2>2
<1>9. QED
  BY <1>8 DEF q

(* A rich sell passes even if it receives no more than its min_out         *)
(* (desk.ts 363, lib.rs 184-201).                                          *)
THEOREM RichSellsPass == Spec => []RichSellPasses
<1>1. Trade => RichSellPasses
  <2> DEFINE A == Amount(SELL)
             P == Paid(SELL)
             m == Asked(SELL)
             s == Pow10[decimals]
             cap == usd * 100 * s
             limit == nyse * (10000 - band)
             floor == FloorE8(nyse, band)
             k == (limit + 9999) \div 10000
  <2> SUFFICES ASSUME Trade, verdict(tape, band) = "rich", band < 10000,
                      Fine(m, 4), Wide, Narrows(usd, floor)
               PROVE  SellPasses(m)
    BY DEF RichSellPasses
  <2>1. /\ nyse \in Nat /\ nyse > 0 /\ onchain \in Nat /\ onchain > 0 /\ onchain <= U64_MAX
        /\ band \in Nat /\ usd \in Nat /\ usd > 0 /\ cap \in Nat /\ limit \in Nat
        /\ s \in Nat /\ s > 0 /\ U64_MAX \in Nat /\ U128_MAX \in Nat
        /\ cap + U64_MAX <= U128_MAX
    BY TradeNumbers
  <2>2. onchain * 10000 >= nyse * (10000 + band)
    BY TapeOfTrade
  <2>3. /\ A \in Nat /\ P \in Nat
        /\ 2 * (A * onchain) <= 2 * cap + onchain
        /\ P * (100 * s) <= A * onchain
        /\ A * onchain < (P + 1) * (100 * s)
    BY SellPays
  <2>4. m \in Nat /\ m <= P /\ P * (10000 - band) <= m * 10000 + 9999
    BY <2>3, AskedBounds
  <2>5. m * band >= 40000 /\ nyse * band * (10000 - band) >= 3 * 10000 * 10000
    BY DEF Fine, Wide
  <2> HIDE DEF A, P, m, s, cap
  <2>6. m > 0 /\ m * (100 * s) <= A * onchain
    <3>1. m > 0
      BY <2>1, <2>4, <2>5
    <3>2. m * (100 * s) <= P * (100 * s)
      BY <2>1, <2>3, <2>4
    <3>3. QED
      BY <2>1, <2>3, <2>4, <3>1, <3>2
  <2>7. A > 0
    <3>1. m * (100 * s) > 0
      BY <2>1, <2>4, <2>6
    <3>2. A = 0 => A * onchain = 0
      BY <2>1
    <3>3. A \in Nat /\ m * (100 * s) \in Nat /\ A * onchain \in Nat
      BY <2>1, <2>3, <2>4
    <3>4. A # 0
      BY <2>6, <3>1, <3>2, <3>3
    <3>5. QED
      BY <3>3, <3>4
  <2>8. (limit + 9999) * A <= 10000 * (m * (100 * s))
    <3>1. 100 * s \in Nat
      BY <2>1
    <3>2. QED
      BY <2>1, <2>2, <2>3, <2>4, <2>5, <3>1, RichAsked
  <2>9. Passes(SELL, m, A)
    <3> DEFINE num == m * s * 100
    <3>1. num \in Nat /\ num = m * (100 * s) /\ num <= A * onchain
      BY <2>1, <2>4, <2>6
    <3> HIDE DEF limit
    <3>2. k \in Nat /\ k * 10000 <= limit + 9999 /\ limit + 9999 < k * 10000 + 10000
      BY <2>1, DivBounds
    <3> HIDE DEF k, num
    <3>3. num <= U128_MAX
      BY <2>1, <2>3, <3>1
    <3>4. num <= U64_MAX * A
      <4>1. onchain * A <= U64_MAX * A
        BY <2>1, <2>3, MulMono
      <4>2. QED
        BY <2>1, <2>3, <3>1, <4>1
    <3>5. k * A <= num
      <4>1. (k * 10000) * A <= (limit + 9999) * A
        BY <2>1, <2>3, <3>2, MulMono
      <4>2. (k * A) * 10000 <= num * 10000
        BY <2>1, <2>3, <2>8, <3>1, <3>2, <4>1
      <4>3. QED
        BY <2>3, <3>1, <3>2, <4>2
    <3>6. k * 10000 >= limit
      BY <2>1, <3>2
    <3>7. QED
      BY <2>3, <2>4, <2>6, <2>7, <3>2, <3>3, <3>4, <3>5, <3>6, SellPassesAt
         DEF limit, num, s
  <2>10. floor \in Nat /\ floor > 0 /\ floor <= onchain
    <3>1. limit >= 10000
      <4>1. band * limit >= 3 * 10000 * 10000
        BY <2>1, <2>5
      <4> HIDE DEF limit
      <4>2. band * limit <= 10000 * limit
        BY <2>1, MulMono
      <4>3. QED
        BY <2>1, <4>1, <4>2
    <3>2. floor = limit \div 10000
      BY DEF FloorE8
    <3>3. 1 <= limit \div 10000
      BY <2>1, <3>1, DivAtLeast
    <3>4. floor \in Nat /\ floor <= nyse
      BY FloorBounds
    <3>5. nyse <= onchain
      BY <2>1, <2>2
    <3> HIDE DEF floor, limit
    <3>6. QED
      BY <2>1, <3>2, <3>3, <3>4, <3>5
  <2>11. A * floor <= cap + (floor - 1)
    <3> HIDE DEF floor
    <3>1. (2 * A - 1) * floor <= (2 * A - 1) * onchain
      <4>1. 2 * A - 1 \in Nat
        BY <2>3, <2>7
      <4>2. QED
        BY <2>1, <2>10, <4>1
    <3>2. 2 * (A * floor) <= 2 * cap + floor
      BY <2>1, <2>3, <2>10, <3>1
    <3>3. A * floor \in Nat
      BY <2>3, <2>10
    <3>4. QED
      BY <2>1, <2>10, <3>2, <3>3
  <2>12. /\ max_sell_native(usd, nyse, band, decimals) # Err
         /\ A <= max_sell_native(usd, nyse, band, decimals)
    BY <2>3, <2>10, <2>11, CapCovers DEF cap, s
  <2>13. QED
    BY <2>9, <2>12 DEF SellPasses, A
<1>2. QED
  BY <1>1, IsATrade, PTL

(* What a sell that passes says of its price.                              *)
LEMMA SellPassed ==
    ASSUME Trade, NEW received \in Nat, NEW tokens \in Nat, Passes(SELL, received, tokens)
    PROVE  /\ tokens > 0 /\ band < 10000
           /\ \E k \in Nat : /\ k * 10000 >= nyse * (10000 - band)
                             /\ k * tokens <= received * Pow10[decimals] * 100
<1> DEFINE p == PriceOf(received, tokens, decimals)
<1>1. /\ tokens > 0 /\ band < 10000 /\ p # Err /\ p * 10000 >= nyse * (10000 - band)
  BY DEF Passes, implied_price_e8, in_band, BUY, SELL
<1>2. p \in U64 /\ p * tokens <= received * Pow10[decimals] * 100
  BY <1>1, PriceOfBounds, TradeNumbers
<1>3. QED
  BY <1>1, <1>2, U64IsNat

(* RICH -> REJECT does not depend on the desk: beyond the band no min_out  *)
(* the venue can deliver passes, nor does the mirror sell (lib.rs 124-130, *)
(* 184-201).                                                               *)
THEOREM OffTapeNeverFills == Spec => []OffTapeNeverPasses
<1>1. Trade => OffTapeNeverPasses
  <2> SUFFICES ASSUME Trade PROVE OffTapeNeverPasses
    OBVIOUS
  <2>1. /\ nyse \in Nat /\ nyse > 0 /\ onchain \in Nat /\ onchain > 0 /\ band \in Nat
        /\ usd \in Nat /\ Pow10[decimals] \in Nat
    BY TradeNumbers
  <2>2. Premium(tape) = (onchain - nyse) * 10000
    BY TapeOfTrade
  <2>3. ASSUME Premium(tape) > band * nyse, NEW min_out \in 1..Paid(BUY),
               Passes(BUY, usd, min_out)
        PROVE  FALSE
    <3> DEFINE num == usd * Pow10[decimals] * 100
    <3>1. onchain * 10000 > nyse * (10000 + band)
      BY <2>1, <2>2, <2>3
    <3>2. Paid(BUY) \in Nat /\ Paid(BUY) * onchain <= num /\ num \in Nat
      BY <2>1, BuyPays
    <3>3. min_out \in Nat /\ min_out > 0 /\ min_out <= Paid(BUY)
      BY <2>3, <3>2
    <3>4. PICK k \in Nat : k * 10000 <= nyse * (10000 + band) /\ num < (k + 1) * min_out
      <4>1. Passes(BUY, usd, min_out) /\ min_out \in Nat /\ usd \in Nat
        BY <2>1, <2>3, <3>3
      <4>2. QED
        BY <4>1, BuyPassed
    <3> HIDE DEF num
    <3>5. min_out * onchain <= Paid(BUY) * onchain
      BY <2>1, <3>2, <3>3, MulMono
    <3>6. onchain * min_out < (k + 1) * min_out
      BY <2>1, <3>2, <3>3, <3>4, <3>5
    <3>7. onchain < k + 1
      BY <2>1, <3>3, <3>6, MulCancel
    <3>8. QED
      BY <2>1, <3>1, <3>4, <3>7
  <2>4. ASSUME Premium(tape) < -(band * nyse), SellPasses(Paid(SELL))
        PROVE  FALSE
    <3> DEFINE A == Amount(SELL)
               P == Paid(SELL)
    <3>1. /\ A \in Nat /\ P \in Nat /\ P * (100 * Pow10[decimals]) <= A * onchain
          /\ P * (100 * Pow10[decimals]) = P * Pow10[decimals] * 100
      BY <2>1, SellPays
    <3>2. Passes(SELL, P, A)
      BY <2>4 DEF SellPasses
    <3> HIDE DEF A, P
    <3>3. A > 0 /\ band < 10000
      BY <3>1, <3>2, SellPassed
    <3>4. PICK k \in Nat : /\ k * 10000 >= nyse * (10000 - band)
                           /\ k * A <= P * Pow10[decimals] * 100
      BY <3>1, <3>2, SellPassed
    <3>5. k * A < (onchain + 1) * A
      BY <2>1, <3>1, <3>3, <3>4
    <3>6. k < onchain + 1
      BY <2>1, <3>1, <3>5, MulCancel
    <3>7. onchain * 10000 < nyse * (10000 - band)
      BY <2>1, <2>2, <2>4
    <3>8. QED
      BY <2>1, <3>3, <3>4, <3>6, <3>7
  <2>5. QED
    BY <2>3, <2>4 DEF OffTapeNeverPasses
<1>2. QED
  BY <1>1, IsATrade, PTL
=============================================================================
