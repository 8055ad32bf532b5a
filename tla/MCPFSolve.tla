----------------------------- MODULE MCPFSolve -----------------------------
(* The literals of solve() made small: they only set how often each loop   *)
(* may turn.  LeastPasses is between the two configured bounds, so that    *)
(* each of the three decides for some options; MaxIteration leaves room    *)
(* for two rounds of stagnation.                                           *)
EXTENDS PFSolve
=============================================================================
