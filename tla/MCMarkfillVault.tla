--------------------------- MODULE MCMarkfillVault ---------------------------
(***************************************************************************)
(* Small instances of MarkfillVault for TLC.  Prices are e8 units around   *)
(* 100, so one USDC atom for one atom of a mint with no decimals is 100.   *)
(***************************************************************************)
EXTENDS MarkfillVault, TLC

CONSTANTS u1, u2, s1, s2, f1, f2

MCPow10 == [n \in 0..9 |-> 10^n]
MCDecimals == [s \in Stocks |-> 0]

Update(feed, price, exponent, time) ==
    [feed_id |-> feed, price |-> price, exponent |-> exponent, publish_time |-> time]

(* The price of f1 doubles at time 1, f2 trades at another price and is    *)
(* halted (no positive price) at time 1.                                   *)
MCUpdates ==
    {Update(f1, 100, -8, 0), Update(f1, 20, -7, 1), Update(f1, 20000, -10, 2),
     Update(f2, 250, -8, 0), Update(f2, 0, -8, 1)}

(* One feed for the runs about owners and lifecycle.                       *)
MCOneFeedUpdates == {Update(f1, 100, -8, 0), Update(f1, 200, -8, 1)}

Symmetry == Permutations(Users)
=============================================================================
