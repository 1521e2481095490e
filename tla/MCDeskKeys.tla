----------------------------- MODULE MCDeskKeys -----------------------------
(* Small instances of DeskKeys for TLC.                                    *)
EXTENDS DeskKeys
CONSTANTS o1, o2, s1, s2
=============================================================================
