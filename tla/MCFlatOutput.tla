---------------------------- MODULE MCFlatOutput ----------------------------
(* Up to two ranks, two contingencies and two executions, in all modes.    *)
(* Waves of up to two cases: a rank that has claimed one while the other   *)
(* rank claimed the other has a wave of one.  With two the batch may       *)
(* retain the second case and not the first, so that they come out of      *)
(* order.                                                                  *)
EXTENDS FlatOutput

=============================================================================
