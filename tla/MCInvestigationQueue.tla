------------------------- MODULE MCInvestigationQueue -------------------------
(* One row, two workers: rows share nothing, so one row shows every        *)
(* interleaving of verbs on it.                                            *)
EXTENDS InvestigationQueue

CONSTANTS w1, w2, i1
===============================================================================
