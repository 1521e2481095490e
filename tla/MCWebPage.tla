----------------------------- MODULE MCWebPage -----------------------------
(* Small instances of WebPage for TLC.                                     *)
EXTENDS WebPage
CONSTANTS o1, o2, r1, r2, t1

(* The address of one owner spells "arm".                                  *)
MCSpelled == [o \in Owners |-> IF o = o2 THEN {"arm"} ELSE {}]
=============================================================================
