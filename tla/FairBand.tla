------------------------------ MODULE FairBand ------------------------------
(***************************************************************************)
(* The price arithmetic of the vault program (programs/markfill_vault,     *)
(* lib.rs): how a Pyth price becomes USD * 1e8, which price a fill implies, *)
(* how many shares a sell may debit, and whether a price is in the band.   *)
(*                                                                         *)
(* Amounts are native token atoms, prices are USD per whole token * 1e8.   *)
(* The machine widths are constants, so that a small instance meets the    *)
(* same overflow paths as u64 and u128 do.  An Err of Rust's Result is the *)
(* value Err, which is no u64.                                             *)
(***************************************************************************)
EXTENDS Integers

CONSTANTS
    U16_MAX,        \* largest u16
    U64_MAX,        \* largest u64
    U128_MAX,       \* largest u128
    I128_MAX,       \* largest i128
    MAX_DECIMALS,   \* 18: the largest mint decimals the program prices
    MAX_EXPO,       \* largest power of ten that is looked up
    Pow10,          \* Pow10[n] = 10^n
    MAX_AGE         \* 120: seconds a Pyth price stays usable

ASSUME WidthAssumption ==
    U16_MAX \in Nat /\ U64_MAX \in Nat /\ U128_MAX \in Nat /\ I128_MAX \in Nat

(* The products of in_band fit a u128.                                     *)
ASSUME ProductAssumption == U128_MAX >= U64_MAX * (10000 + U16_MAX)

ASSUME DecimalsAssumption == MAX_DECIMALS \in Nat /\ MAX_EXPO \in Nat /\ MAX_DECIMALS <= MAX_EXPO

ASSUME ScaleAssumption == Pow10 \in [0..MAX_EXPO -> Nat \ {0}]

ASSUME Pow10Assumption ==
    Pow10[0] = 1 /\ \A n \in 1..MAX_EXPO : Pow10[n] = 10 * Pow10[n - 1]

ASSUME AgeAssumption == MAX_AGE \in Nat

BUY  == 0
SELL == 1
Err  == -1

U64 == 0..U64_MAX

-----------------------------------------------------------------------------
(* A price scaled to 1e8, by multiplying or by truncating division.        *)
ScaleE8(price, exponent) ==
    IF exponent >= -8 THEN price * Pow10[exponent + 8]
                      ELSE price \div Pow10[-8 - exponent]

(* The receiver SDK's check: the order's own feed, at most MAX_AGE old.    *)
get_price_no_older_than(update, feed_id, clock) ==
    /\ update.feed_id = feed_id
    /\ update.publish_time + MAX_AGE >= clock

(* Mutant: the update is read without the SDK's check of feed and age.     *)
PythUnchecked(update, feed_id, clock) ==
    LET e8 == ScaleE8(update.price, update.exponent)
    IN  IF update.price > 0 /\ e8 <= I128_MAX /\ e8 > 0
        THEN e8 % (U64_MAX + 1)
        ELSE Err

(* The Pyth price of feed_id as a u64.  The cast `e8 as u64` keeps the low *)
(* 64 bits of an i128.                                                     *)
pyth_e8(update, feed_id, clock) ==
    LET e8 == ScaleE8(update.price, update.exponent)
    IN  IF /\ get_price_no_older_than(update, feed_id, clock)
           /\ update.price > 0
           /\ e8 <= I128_MAX
           /\ e8 > 0
        THEN e8 % (U64_MAX + 1)
        ELSE Err

(* usd * 10^decimals * 100 / tokens, computed in u128 and narrowed to u64. *)
PriceOf(usd, tokens, decimals) ==
    LET num == usd * Pow10[decimals] * 100
    IN  IF num <= U128_MAX /\ num \div tokens <= U64_MAX
        THEN num \div tokens
        ELSE Err

(* Mutant: a buy divides the stock by the USDC.                            *)
SwappedPrice(side, usd_amount, min_out, stock_decimals) ==
    IF min_out > 0 /\ usd_amount > 0 /\ stock_decimals <= MAX_DECIMALS
    THEN PriceOf(min_out, usd_amount, stock_decimals)
    ELSE Err

(* A buy passes (USDC atoms, stock atoms); a sell (stock atoms, USDC atoms). *)
implied_price_e8(side, usd_amount, min_out, stock_decimals) ==
    IF min_out > 0 /\ usd_amount > 0 /\ stock_decimals <= MAX_DECIMALS
    THEN IF side = BUY THEN PriceOf(usd_amount, min_out, stock_decimals)
                       ELSE PriceOf(min_out, usd_amount, stock_decimals)
    ELSE Err

(* The cheapest price a sell may fill at.                                  *)
FloorE8(nyse_e8, band_bps) == (nyse_e8 * (10000 - band_bps)) \div 10000

(* Mutant: the notional is divided by the published price.                 *)
CapAtMarket(usd_amount, nyse_e8, band_bps, stock_decimals) ==
    (usd_amount * 100 * Pow10[stock_decimals] + (nyse_e8 - 1)) \div nyse_e8

(* The most stock atoms a sell of usd_amount may debit: the ceiling of the *)
(* notional at the floor price.                                            *)
max_sell_native(usd_amount, nyse_e8, band_bps, stock_decimals) ==
    LET floor == FloorE8(nyse_e8, band_bps)
        num   == usd_amount * 100 * Pow10[stock_decimals] + (floor - 1)
    IN  IF /\ band_bps < 10000
           /\ usd_amount > 0 /\ nyse_e8 > 0
           /\ stock_decimals <= MAX_DECIMALS
           /\ floor > 0
           /\ num <= U128_MAX
           /\ num \div floor <= U64_MAX
        THEN num \div floor
        ELSE Err

(* Mutant: the edge of the band is outside.                                *)
InsideBand(side, implied_e8, nyse_e8, band_bps) ==
    IF side = BUY
    THEN implied_e8 * 10000 < nyse_e8 * (10000 + band_bps)
    ELSE /\ band_bps < 10000
         /\ implied_e8 * 10000 > nyse_e8 * (10000 - band_bps)

(* Mutant: the check of a buy for both sides.                              *)
CeilingOnly(side, implied_e8, nyse_e8, band_bps) ==
    implied_e8 * 10000 <= nyse_e8 * (10000 + band_bps)

(* Whether a price is inside the owner's band.                             *)
in_band(side, implied_e8, nyse_e8, band_bps) ==
    IF side = BUY
    THEN implied_e8 * 10000 <= nyse_e8 * (10000 + band_bps)
    ELSE /\ band_bps < 10000
         /\ implied_e8 * 10000 >= nyse_e8 * (10000 - band_bps)

-----------------------------------------------------------------------------
(* What the band means for a user, with no machine arithmetic: the user    *)
(* paid `usd` atoms for `tokens` atoms (or the reverse), and the rational   *)
(* price usd * 10^d * 100 / tokens is compared with the published price by *)
(* cross multiplication.                                                   *)

(* A buy's price is at most nyse * (1 + band), up to the one unit of 1e-8  *)
(* dollars that the truncating division of PriceOf can hide.               *)
BuyFair(usd, tokens, nyse, band_bps, decimals) ==
    usd * Pow10[decimals] * 100 * 10000
        < (nyse * (10000 + band_bps) + 10000) * tokens

(* A sell's price is at least nyse * (1 - band), exactly.                  *)
SellFair(usd, tokens, nyse, band_bps, decimals) ==
    /\ tokens > 0
    /\ usd * Pow10[decimals] * 100 * 10000
           >= nyse * (10000 - band_bps) * tokens

(* The shares sold are worth at most the notional at the floor price, up   *)
(* to one stock atom.                                                      *)
SellWithinNotional(notional, tokens, nyse, band_bps, decimals) ==
    (tokens - 1) * FloorE8(nyse, band_bps) < notional * 100 * Pow10[decimals]
=============================================================================
