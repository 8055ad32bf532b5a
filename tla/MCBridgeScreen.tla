---------------------------- MODULE MCBridgeScreen ----------------------------
(* All networks of four buses with up to three circuits in any order, and  *)
(* with up to five or six in one order; some with an isolated bus, with a  *)
(* circuit out of service, or without a generator at the reference.        *)
EXTENDS BridgeScreen

CONSTANTS AllOrders, OneOrder

Pairs == {<<u, v>> \in Bus \X Bus : u <= v}
Code(p) == p[1] * NBus + p[2]
Sorted(s) == \A i \in 1 .. (Len(s) - 1) : Code(s[i]) <= Code(s[i + 1])

ListsUpTo(n) == UNION {[1 .. m -> Pairs] : m \in 0 .. n}

(* Sorted lists, one circuit longer each time. *)
SortedLists[n \in Nat] ==
  IF n = 0 THEN {<<>>}
  ELSE {Append(s, p) : s \in SortedLists[n - 1], p \in Pairs}
         \cap {s \in [1 .. n -> Pairs] : Sorted(s)}

Lines(s) == [i \in DOMAIN s |-> [u |-> s[i][1], v |-> s[i][2], on |-> TRUE]]

Variants(s) ==
  {[isolated |-> {}, refHasGen |-> TRUE, line |-> Lines(s)],
   [isolated |-> {NBus - 1}, refHasGen |-> TRUE, line |-> Lines(s)],
   [isolated |-> {}, refHasGen |-> FALSE, line |-> Lines(s)],
   [isolated |-> {1}, refHasGen |-> TRUE,
    line |-> [i \in DOMAIN s |-> [Lines(s)[i] EXCEPT !.on = (i # 2)]]]}

MCNetworks ==
  UNION {Variants(s) : s \in ListsUpTo(AllOrders)}
    \cup {[isolated |-> {}, refHasGen |-> TRUE, line |-> Lines(s)] :
            s \in UNION {SortedLists[n] : n \in 0 .. OneOrder}}

=============================================================================
