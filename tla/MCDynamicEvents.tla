--------------------------- MODULE MCDynamicEvents ---------------------------
EXTENDS DynamicEvents

\* Bus 1 -a- bus 2 -b- bus 3 -c- bus 4 -d- bus 5; branch a has two circuits.
MCBusOrder    == <<1, 2, 3, 4, 5>>
MCBranchOrder == <<"a", "b", "c", "d">>
MCEnds        == [a |-> <<1, 2>>, b |-> <<2, 3>>, c |-> <<3, 4>>, d |-> <<4, 5>>]
MCBranchOf    == [a1 |-> "a", a2 |-> "a", b1 |-> "b", c1 |-> "c", d1 |-> "d"]
MCRestOf      == [a1 |-> "rest of a1", a2 |-> "rest of a2", b1 |-> "rest of b1",
                  c1 |-> "rest of c1", d1 |-> "rest of d1"]
MCGenBus      == [g1 |-> 1, g5 |-> 5]

\* The bus relays are at buses that no event of MCEventLists touches, and
\* no line relay.  A frequency relay has one pick-up time for both limits,
\* a line relay one for each zone.
MCBusRelay  == [uv |-> [bus |-> 4, part |-> "load"],
                uf |-> [bus |-> 5, part |-> "g5"]]
MCLineRelay == [z1 |-> "b1"]
MCPickUp    == [uv |-> [low |-> 2], uf |-> [low |-> 1, up |-> 1],
                z1 |-> [zone1 |-> 2, zone2 |-> 3]]
MCBreaker   == [uv |-> 1, uf |-> 2, z1 |-> 1]

\* Events on the grid of the time steps.  At most one fault, which ends after
\* it starts, a line that opens, and one more switching: of the same circuit,
\* of the other circuit of its branch, or of a generator beside it.
OnGrid == {2 * k : k \in 0 .. EndStep - 1}
Fault2(s, e) == [kind |-> "fault", bus |-> 2, start |-> s, end |-> e]
Faults == {Fault2(s, e) : s \in OnGrid, e \in OnGrid}
Line(c, up, t) == [kind |-> "line", line |-> c, status |-> up, time |-> t]
Gen1(up, t) == [kind |-> "gen", gen |-> "g1", status |-> up, time |-> t]
Others == {Line("a1", up, t) : up \in BOOLEAN, t \in OnGrid}
          \cup {Line("a2", FALSE, t) : t \in OnGrid}
MCEventLists ==
  {<<f, Line("a1", FALSE, 2), y>> : f \in {f \in Faults : f.start < f.end},
                                   y \in Others}
  \cup {<<Gen1(FALSE, t), x>> : t \in {0, 2}, x \in {Gen1(up, 2) : up \in BOOLEAN}
                                                   \cup {Fault2(0, 4)}}

\* MatrixIsNetwork is checked where it is claimed, and proved.
ASSUME MCInputIsAssumed == EventLists = MCEventLists => InputAssumed

\* An event that opens a circuit at a bus with a relay.
MCRelayBusLists == {<<Line("d1", FALSE, 2)>>}
=============================================================================
