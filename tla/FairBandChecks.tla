--------------------------- MODULE FairBandChecks ---------------------------
(***************************************************************************)
(* The checks of execute_fill asked the other way round: not whether what  *)
(* they accept is fair (BuysFillFairly and SellsFillFairly of              *)
(* MarkfillVault), but whether they accept what is fair, and whether they  *)
(* agree with the tape, by which the desk decides what to submit.          *)
(*                                                                         *)
(* A state is a tape and an order; a step moves the on-chain price.  The   *)
(* published price is the tape's reference, and the desk's trade settles   *)
(* at the on-chain price, so that desk and program can only disagree by    *)
(* their rules.                                                            *)
(***************************************************************************)
EXTENDS Tape

CONSTANTS
    MaxPrice, MaxAtoms,     \* bounds on the on-chain price and on tokens
    References, Bands, Amounts, Places

ASSUME TradeAssumption ==
    /\ MaxPrice \in Nat /\ References \subseteq 1..MaxPrice /\ MaxPrice <= U64_MAX
    /\ MaxAtoms \in Nat
    /\ Bands \subseteq 1..U16_MAX /\ Amounts \subseteq U64 \ {0}
    /\ Places \subseteq 0..MAX_DECIMALS

(* The trades asked about are those the machine can price: the products of *)
(* a notional fit a u128, and the dearest price of a band fits a u64.  With *)
(* 8 decimals every u64 notional and every price below 10^10 dollars does. *)
ASSUME MachineAssumption ==
    /\ \A a \in Amounts, d \in Places : a * 100 * Pow10[d] + U64_MAX <= U128_MAX
    /\ \A n \in References, b \in Bands : n * (10000 + b) <= 10000 * U64_MAX

VARIABLES
    nyse,       \* the reference, and the price the program reads
    onchain,
    band,
    usd,        \* notional of the order
    decimals

vars == <<nyse, onchain, band, usd, decimals>>

Init ==
    /\ nyse \in References /\ band \in Bands /\ usd \in Amounts /\ decimals \in Places
    /\ onchain = 1

Move == onchain' \in 1..MaxPrice /\ UNCHANGED <<nyse, band, usd, decimals>>

Spec == Init /\ [][Move]_vars

-----------------------------------------------------------------------------
(* Trades of any number of tokens.                                         *)

Atoms == 1..MaxAtoms

(* So many dollars are a u64 when they are divided by n.                   *)
Narrows(dollars, n) == dollars * 100 * Pow10[decimals] <= U64_MAX * n

(* The band check of a trade that moves this USDC and these tokens.        *)
Passes(side, dollars, tokens) ==
    LET implied == IF side = BUY THEN implied_price_e8(BUY, dollars, tokens, decimals)
                                 ELSE implied_price_e8(SELL, tokens, dollars, decimals)
    IN  implied # Err /\ in_band(side, implied, nyse, band)

(* A buy at or below nyse * (1 + band) is not refused (lib.rs 356-362).    *)
FairBuyPasses ==
    \A tokens \in Atoms :
        usd * Pow10[decimals] * 100 * 10000 <= nyse * (10000 + band) * tokens
            => Passes(BUY, usd, tokens)

(* A sell at or above the floor price is not refused, the floor being      *)
(* rounded up to a whole 1e-8 of a dollar (lib.rs 363-368).                *)
FairSellPasses ==
    LET floor == (nyse * (10000 - band) + 9999) \div 10000
    IN  \A tokens \in Atoms :
            (band < 10000 /\ Narrows(usd, tokens) /\ usd * Pow10[decimals] * 100 >= floor * tokens)
                => Passes(SELL, usd, tokens)

(* The cap of a sell does not refuse shares worth no more than the         *)
(* notional at the floor price (lib.rs 335-354).                           *)
CapCoversNotional ==
    (band < 10000 /\ FloorE8(nyse, band) > 0 /\ Narrows(usd, FloorE8(nyse, band))) =>
        \A tokens \in Atoms :
            tokens * FloorE8(nyse, band) <= usd * 100 * Pow10[decimals]
                => tokens <= max_sell_native(usd, nyse, band, decimals)

(* The check of a buy before the swap decides for the swap: paying less or *)
(* getting more than was checked is never outside the band (lib.rs         *)
(* 124-130, 173-183).                                                      *)
BetterBuyPasses ==
    \A tokens \in Atoms : Passes(BUY, usd, tokens) =>
        /\ Passes(BUY, usd, tokens + 1)
        /\ usd > 1 => Passes(BUY, usd - 1, tokens)

-----------------------------------------------------------------------------
(* The trade the desk submits.                                             *)

tape == buildTape(nyse, NoPrint, onchain, NoPrint)

Amount(side) == InAmount(side, usd, onchain, decimals)
Asked(side)  == MinOut(side, Amount(side), onchain, band, decimals)
Paid(side)   == OutAmount(side, Amount(side), onchain, decimals)

(* The checks of a sell after a swap that received so much.                *)
SellPasses(received) ==
    LET max == max_sell_native(usd, nyse, band, decimals)
    IN  Passes(SELL, received, Amount(SELL)) /\ max # Err /\ Amount(SELL) <= max

(* The rounding of min_out to an atom is at most this part of the band.    *)
Fine(min_out, part) == min_out * band >= part * 10000

(* The band is more than two units of 1e-8 dollars wide at the floor.      *)
Wide == nyse * band * (10000 - band) >= 3 * 10000 * 10000

(* CHEAP -> FILL: the min_out of a cheap buy, all of the band below the    *)
(* quote, still implies a price the program accepts (desk.ts:363,          *)
(* lib.rs 124-130).                                                        *)
CheapBuyPasses ==
    (verdict(tape, band) = "cheap" /\ Fine(Asked(BUY), 2)) => Passes(BUY, usd, Asked(BUY))

(* A rich sell passes even if it receives no more than its min_out         *)
(* (desk.ts:363, lib.rs 184-201).                                          *)
RichSellPasses ==
    (/\ verdict(tape, band) = "rich" /\ band < 10000
     /\ Fine(Asked(SELL), 4) /\ Wide /\ Narrows(usd, FloorE8(nyse, band)))
        => SellPasses(Asked(SELL))

(* RICH -> REJECT does not depend on the desk: beyond the band no min_out  *)
(* the venue can deliver passes, nor does the mirror sell.                 *)
OffTapeNeverPasses ==
    /\ Premium(tape) > band * nyse
          => \A min_out \in 1..Paid(BUY) : ~Passes(BUY, usd, min_out)
    /\ Premium(tape) < -(band * nyse) => ~SellPasses(Paid(SELL))

-----------------------------------------------------------------------------
(* "FAIR -> FILL": a buy the tape calls inside the band passes the check   *)
(* of the program with the min_out the keeper asks for.                    *)
FairIsFilled ==
    (verdict(tape, band) = "inside" /\ Fine(Asked(BUY), 2)) => Passes(BUY, usd, Asked(BUY))
=============================================================================
