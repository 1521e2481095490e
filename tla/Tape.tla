-------------------------------- MODULE Tape --------------------------------
(***************************************************************************)
(* The tape of one name and the trade the desk quotes on it                *)
(* (src/lib/tape.ts, jupiter.ts, desk.ts fillVaultOrder): which print is   *)
(* the reference and which the on-chain price, the verdict of a band, the  *)
(* side it allows, and the min_out a keeper asks the vault program for.    *)
(*                                                                         *)
(* The code computes with doubles; here a price is a whole number of 1e-8  *)
(* dollars and an amount a whole number of atoms.  A print that is missing *)
(* is NoPrint, which is no price: the code drops a price of zero.          *)
(***************************************************************************)
EXTENDS FairBand

NoPrint == 0

(* `a || b`                                                                *)
Or(a, b) == IF a # NoPrint THEN a ELSE b

(* The tape of the prints that came back: Pyth's equity price before       *)
(* Yahoo's, Pyth's xStock price before the one implied by a Jupiter quote. *)
buildTape(equity, yahoo, x, implied) == [nyse |-> Or(equity, yahoo), onchain |-> Or(x, implied)]

(* premiumBps times the reference price.                                   *)
Premium(tape) == (tape.onchain - tape.nyse) * 10000

verdict(tape, band_bps) ==
    IF tape.nyse = NoPrint \/ tape.onchain = NoPrint THEN "no-print"
    ELSE IF Premium(tape) <= -(band_bps * tape.nyse) THEN "cheap"
    ELSE IF Premium(tape) >= band_bps * tape.nyse THEN "rich" ELSE "inside"

(* buyFair or buyCheap, sellRich.                                          *)
Allowed(side, v) == IF side = BUY THEN v \in {"inside", "cheap"} ELSE v = "rich"

(* An armed order is tried only when its side is allowed.                  *)
Ready(side, tape, band_bps) == Allowed(side, verdict(tape, band_bps))

-----------------------------------------------------------------------------
(* Dollars (USDC atoms) of a sell, cut to what the shares are worth.       *)
SellUsd(usd_amount, stock, price, decimals) ==
    LET worth == (stock * price) \div (100 * Pow10[decimals])
    IN  IF worth < usd_amount THEN worth ELSE usd_amount

(* The amount quoteTrade asks a quote for: USDC atoms of a buy, stock      *)
(* atoms of a sell, rounded to the nearest.                                *)
InAmount(side, usd, price, decimals) ==
    IF side = BUY THEN usd
    ELSE (2 * usd * 100 * Pow10[decimals] + price) \div (2 * price)

(* What the venue pays for that at its price.                              *)
OutAmount(side, amount, price, decimals) ==
    IF side = BUY THEN (amount * 100 * Pow10[decimals]) \div price
    ELSE (amount * price) \div (100 * Pow10[decimals])

(* Mutant: the band is given up on both sides.                             *)
BothSides(band_bps) == IF band_bps > 0 THEN 2 * band_bps ELSE 1

(* slippageBps of fillVaultOrder.                                          *)
Slippage(band_bps) == IF band_bps > 1 THEN band_bps ELSE 1

(* otherAmountThreshold: the quote less its slippage.                      *)
Threshold(out, slippage) == (out * (10000 - slippage)) \div 10000

(* The min_out a keeper submits for a quote at this price.                 *)
MinOut(side, amount, price, band_bps, decimals) ==
    Threshold(OutAmount(side, amount, price, decimals), Slippage(band_bps))
=============================================================================
