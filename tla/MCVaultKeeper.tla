---------------------------- MODULE MCVaultKeeper ----------------------------
(***************************************************************************)
(* Small instances of VaultKeeper for TLC.  Prices are e8 units around     *)
(* 100, so one USDC atom for one atom of a mint with no decimals is 100.   *)
(***************************************************************************)
EXTENDS VaultKeeper

CONSTANTS u1, s1, f1

MCPow10 == [n \in 0..9 |-> 10^n]
MCDecimals == [s \in Stocks |-> 0]
MCEquityFeed == [s \in Stocks |-> f1]

Update(price, time) == [feed_id |-> f1, price |-> price, exponent |-> -8, publish_time |-> time]
MCUpdates == {Update(100, 0)}
MCMovingUpdates == {Update(100, 0), Update(200, 1)}
=============================================================================
