--------------------------- MODULE MCContingency ---------------------------
(***************************************************************************)
(* A ring of three buses with a spur of two and a bus that is isolated in  *)
(* the network file:                                                       *)
(*                                                                         *)
(*     1 --- 2                                                             *)
(*      \   /                                                              *)
(*        3 --- 4 === 5 --- 6 (type 4)                                     *)
(*                                                                         *)
(* The outage of 3-4 splits off an island, that of both lines of bus 1     *)
(* leaves the reference bus alone, that of 4-5 takes two circuits, and bus *)
(* 5 then hangs on the isolated bus.                                       *)
(***************************************************************************)
EXTENDS Contingency

CONSTANTS l12, l13, l23, l34, l45a, l45b, l56, g1, g2, g2b, g4, g5

MCEnds ==
  [l \in Line |-> CASE l = l12 -> {1, 2} [] l = l13 -> {1, 3} [] l = l23 -> {2, 3}
                    [] l = l34 -> {3, 4} [] l \in {l45a, l45b} -> {4, 5}
                    [] l = l56 -> {5, 6}]
MCGenBus ==
  [g \in Gen |-> CASE g = g1 -> 1 [] g \in {g2, g2b} -> 2 [] g = g4 -> 4 [] g = g5 -> 5]

(* g5 is a condenser; buses 2 and 4 are equally good for the reference.    *)
MCCap == [g \in Gen |-> CASE g = g1 -> 9 [] g = g2 -> 3 [] g = g2b -> 2
                          [] g = g4 -> 5 [] g = g5 -> 0]

(* One or two elements, found or not, and the loss of all generators that  *)
(* have a capacity.                                                        *)
MCEvents ==
  {[kind |-> "Branch", elems |-> s, missing |-> m] :
     s \in {{l, k} : l, k \in Line}, m \in BOOLEAN}
  \cup
  {[kind |-> "Generator", elems |-> s, missing |-> m] :
     s \in {{g, h} : g, h \in Gen} \cup {{g1, g2, g2b, g4}}, m \in BOOLEAN}

(* Powerflow.qlim without Contingency_analysis.qlim is the setting of      *)
(* MCContingencyQlim.cfg.                                                  *)
MCQlimSettings == {<<TRUE, TRUE>>, <<FALSE, TRUE>>, <<FALSE, FALSE>>}
MCQlimUneven == {<<TRUE, FALSE>>}

=============================================================================
