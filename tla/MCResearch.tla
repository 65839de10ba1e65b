----------------------------- MODULE MCResearch -----------------------------
(***************************************************************************)
(* Instance of ResearchQueue: a quant campaign q and two runs a, b of one  *)
(* pilot program, two worker processes.                                    *)
(***************************************************************************)
EXTENDS ResearchQueue

CONSTANTS q, a, b, w1, w2, o1, o2
=============================================================================
