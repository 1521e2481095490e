--------------------------- MODULE MCCustodialDesk ---------------------------
(***************************************************************************)
(* Small instances of CustodialDesk for TLC.                               *)
(***************************************************************************)
EXTENDS CustodialDesk
CONSTANTS o1, o2, AAPL, t1, t2, c1, c2
=============================================================================
