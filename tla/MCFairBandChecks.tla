-------------------------- MODULE MCFairBandChecks --------------------------
(***************************************************************************)
(* Small instances of FairBandChecks for TLC.                              *)
(***************************************************************************)
EXTENDS FairBandChecks
MCPow10 == [n \in 0..9 |-> 10^n]
=============================================================================
