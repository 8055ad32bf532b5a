----------------------------- MODULE MCCADriver -----------------------------
(* Two ranks, four events, waves of three: a rank may get no wave, one or  *)
(* two, and the last may be short on one rank and empty on the other,      *)
(* which takes a number of events that is no multiple of the wave size.    *)
(* Event 2 is solved by the ordinary path only, event 3 not at all.        *)
EXTENDS CADriver

CONSTANTS r1, r2

MCBatchable == {0, 1}
MCSolvable == {0, 1, 2}

=============================================================================
