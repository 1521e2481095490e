--------------------------- MODULE FairBandProofs ---------------------------
(***************************************************************************)
(* What the truncating arithmetic of FairBand guarantees, for every width, *)
(* price, band and number of decimals.                                     *)
(***************************************************************************)
EXTENDS FairBand, TLAPS

(* Truncating division.                                                    *)
LEMMA DivBounds ==
    ASSUME NEW a \in Nat, NEW b \in Nat, b > 0
    PROVE  /\ a \div b \in Nat
           /\ (a \div b) * b <= a
           /\ a < (a \div b) * b + b
  BY SMT

(* The decimal scale of a mint is a positive number (lib.rs 296-301).      *)
LEMMA ScaleIsPositive ==
    ASSUME NEW d \in 0..MAX_DECIMALS
    PROVE  Pow10[d] \in Nat /\ Pow10[d] > 0
  BY DecimalsAssumption, ScaleAssumption

(* A u64 is a natural number.                                              *)
LEMMA U64IsNat == \A x \in U64 : x \in Nat
  BY WidthAssumption DEF U64

(* The factor of a sell's band is not negative (lib.rs 364-366).           *)
LEMMA BandIsNat ==
    ASSUME NEW n \in Nat, NEW b \in 0..U16_MAX
    PROVE  n * (10000 + b) \in Nat /\ (b < 10000 => n * (10000 - b) \in Nat)
  BY WidthAssumption

(* The implied price is the price per token rounded down, and no more than *)
(* a u64 (lib.rs 298-317).                                                 *)
LEMMA PriceOfBounds ==
    ASSUME NEW usd \in Nat, NEW tokens \in Nat, tokens > 0,
           NEW d \in 0..MAX_DECIMALS, PriceOf(usd, tokens, d) # Err
    PROVE  /\ PriceOf(usd, tokens, d) \in U64
           /\ PriceOf(usd, tokens, d) * tokens <= usd * Pow10[d] * 100
           /\ usd * Pow10[d] * 100 < PriceOf(usd, tokens, d) * tokens + tokens
<1> DEFINE num == usd * Pow10[d] * 100
<1>1. num \in Nat
  BY ScaleIsPositive
<1>2. PriceOf(usd, tokens, d) = num \div tokens /\ num \div tokens <= U64_MAX
  BY DEF PriceOf
<1>3. QED
  BY <1>1, <1>2, DivBounds, WidthAssumption DEF U64

(* A buy that passes the check on (usd_amount, min_out) is fair for every  *)
(* smaller payment and larger delivery: the check before the swap bounds   *)
(* the swap that follows (lib.rs 124-130).                                 *)
THEOREM BuyCheckIsSound ==
    ASSUME NEW usd \in U64, NEW min_out \in U64, NEW nyse \in U64,
           NEW band \in 0..U16_MAX, NEW d \in Nat,
           implied_price_e8(BUY, usd, min_out, d) # Err,
           in_band(BUY, implied_price_e8(BUY, usd, min_out, d), nyse, band),
           NEW paid \in Nat, NEW got \in Nat, paid <= usd, min_out <= got
    PROVE  BuyFair(paid, got, nyse, band, d)
<1> DEFINE p == PriceOf(usd, min_out, d)
           s == Pow10[d]
           limit == nyse * (10000 + band)
<1>1. min_out > 0 /\ d \in 0..MAX_DECIMALS /\ p # Err
      /\ implied_price_e8(BUY, usd, min_out, d) = p
  BY DecimalsAssumption DEF implied_price_e8, BUY
<1>2. usd \in Nat /\ min_out \in Nat /\ nyse \in Nat
  BY U64IsNat
<1>3. p \in U64 /\ usd * s * 100 < p * min_out + min_out
  BY <1>1, <1>2, PriceOfBounds
<1>4. p * 10000 <= limit
  BY <1>1 DEF in_band
<1>5. p \in Nat /\ s \in Nat /\ limit \in Nat
  <2>1. p \in Nat
    BY <1>3, U64IsNat
  <2>2. s \in Nat
    BY <1>1, ScaleIsPositive
  <2>3. limit \in Nat
    BY <1>1, <1>2, BandIsNat
  <2>4. QED
    BY <2>1, <2>2, <2>3
<1> HIDE DEF p, s, limit
<1>6. usd * s * 100 * 10000 < (limit + 10000) * min_out
  BY <1>1, <1>2, <1>3, <1>4, <1>5
<1>7. (limit + 10000) * min_out <= (limit + 10000) * got
  BY <1>2, <1>5
<1>8. paid * s * 100 * 10000 <= usd * s * 100 * 10000
  <2>1. paid * s <= usd * s
    BY <1>2, <1>5
  <2>2. QED
    BY <1>2, <1>5, <2>1
<1>9. paid * s * 100 * 10000 < (limit + 10000) * got
  BY <1>2, <1>5, <1>6, <1>7, <1>8
<1>10. QED
  BY <1>9 DEF BuyFair, s, limit

(* A sell that passes the check is fair, exactly (lib.rs 197-198).         *)
THEOREM SellCheckIsSound ==
    ASSUME NEW sold \in Nat, NEW received \in Nat, NEW nyse \in U64,
           NEW band \in 0..U16_MAX, NEW d \in Nat,
           implied_price_e8(SELL, sold, received, d) # Err,
           in_band(SELL, implied_price_e8(SELL, sold, received, d), nyse, band)
    PROVE  SellFair(received, sold, nyse, band, d)
<1> DEFINE p == PriceOf(received, sold, d)
           s == Pow10[d]
           limit == nyse * (10000 - band)
<1>1. sold > 0 /\ d \in 0..MAX_DECIMALS /\ p # Err /\ band < 10000
      /\ implied_price_e8(SELL, sold, received, d) = p
  BY DecimalsAssumption DEF implied_price_e8, in_band, BUY, SELL
<1>2. nyse \in Nat
  BY U64IsNat
<1>3. p \in U64 /\ p * sold <= received * s * 100
  BY <1>1, PriceOfBounds
<1>4. p * 10000 >= limit
  BY <1>1 DEF in_band, BUY, SELL
<1>5. p \in Nat /\ s \in Nat /\ limit \in Nat
  <2>1. p \in Nat
    BY <1>3, U64IsNat
  <2>2. s \in Nat
    BY <1>1, ScaleIsPositive
  <2>3. limit \in Nat
    BY <1>1, <1>2, BandIsNat
  <2>4. QED
    BY <2>1, <2>2, <2>3
<1> HIDE DEF p, s, limit
<1>6. limit * sold <= p * 10000 * sold
  BY <1>4, <1>5
<1>7. received * s * 100 * 10000 >= limit * sold
  BY <1>3, <1>6, <1>5
<1>8. QED
  BY <1>1, <1>7 DEF SellFair, s, limit

(* The share cap is worth no more than the notional at the floor price, up *)
(* to one atom (lib.rs 335-354).                                           *)
THEOREM SellCapIsSound ==
    ASSUME NEW usd \in U64, NEW nyse \in U64, NEW band \in 0..U16_MAX, NEW d \in Nat,
           max_sell_native(usd, nyse, band, d) # Err,
           NEW sold \in Nat, sold <= max_sell_native(usd, nyse, band, d)
    PROVE  SellWithinNotional(usd, sold, nyse, band, d)
<1> DEFINE floor == FloorE8(nyse, band)
           s == Pow10[d]
           cap == usd * 100 * s
<1>1. /\ band < 10000 /\ d \in 0..MAX_DECIMALS /\ floor > 0
      /\ max_sell_native(usd, nyse, band, d) = (cap + (floor - 1)) \div floor
  BY DecimalsAssumption DEF max_sell_native
<1>2. nyse \in Nat /\ usd \in Nat /\ s \in Nat /\ cap \in Nat
  BY <1>1, ScaleIsPositive, U64IsNat
<1>3. nyse * (10000 - band) \in Nat
  BY <1>1, <1>2, BandIsNat
<1>4. floor \in Nat
  BY <1>3, DivBounds DEF FloorE8
<1> HIDE DEF floor, cap
<1> DEFINE max == (cap + (floor - 1)) \div floor
<1>5. max \in Nat /\ max * floor <= cap + (floor - 1)
  BY <1>1, <1>2, <1>4, DivBounds
<1>6. sold * floor <= max * floor
  BY <1>1, <1>4, <1>5
<1>7. (sold - 1) * floor < cap
  BY <1>2, <1>4, <1>5, <1>6
<1>8. QED
  BY <1>7 DEF SellWithinNotional, floor, cap

(* A usable Pyth price is the published one scaled to 1e8, when that fits  *)
(* a u64 (lib.rs 241-258).                                                 *)
LEMMA PythIsExact ==
    ASSUME NEW update, NEW feed, NEW clock,
           ScaleE8(update.price, update.exponent) \in Int,
           ScaleE8(update.price, update.exponent) <= U64_MAX,
           pyth_e8(update, feed, clock) # Err
    PROVE  /\ pyth_e8(update, feed, clock) = ScaleE8(update.price, update.exponent)
           /\ pyth_e8(update, feed, clock) \in U64
           /\ get_price_no_older_than(update, feed, clock)
<1> DEFINE e8 == ScaleE8(update.price, update.exponent)
<1>1. /\ pyth_e8(update, feed, clock) = e8 % (U64_MAX + 1) /\ e8 > 0
      /\ get_price_no_older_than(update, feed, clock)
  BY DEF pyth_e8
<1> HIDE DEF e8
<1>2. e8 % (U64_MAX + 1) = e8
  BY <1>1, WidthAssumption DEF e8
<1>3. QED
  BY <1>1, <1>2, WidthAssumption DEF U64, e8
=============================================================================
