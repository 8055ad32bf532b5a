------------------------- MODULE DynamicEventsProofs -------------------------
(***************************************************************************)
(* Two results about the event-driven simulation.                          *)
(*                                                                         *)
(* No relay is in a hurry, for any network, event list, set of relays and  *)
(* setting of their timers, and whichever relays are passed over in a      *)
(* step.  The counters are shown to describe what the relay has seen.      *)
(*                                                                         *)
(* And every step solves with the matrix of the network as the events and  *)
(* relays have left it, for any network and number of steps, if the input  *)
(* is as InputAssumed says.  NetInv follows each admittance through the    *)
(* step: the devices are as the events say (SaysInv), the elements of a    *)
(* bus without relays are those of its devices (PlainInv), the own element *)
(* of a bus with relays is the built one without the parts its relays have *)
(* taken (NominalInv), and the matrix has it unless the step in which a    *)
(* relay acted is not over (RelayBusInv, Pending).  A circuit is followed  *)
(* by its two parts: its series admittance is out when an event or a line  *)
(* relay has opened it (LineIn), the rest only when an event has (RestIn). *)
(***************************************************************************)
EXTENDS DynamicEvents, SequenceTheorems, FiniteSetTheorems, TLAPS

RelayState(r) == [op : BOOLEAN, out : BOOLEAN, flag : BOOLEAN,
                  pick : [Timers(r) -> Nat], brk : Nat]

(* The counters q of relay r have come to a pick-up time. *)
Armed(r, q) == \E t \in Timers(r) : q[t] >= PickUp[r][t]

(* One of the timers of r may have counted its pick-up time up to last. *)
Enough(r, h, last) ==
  \E t \in Timers(r) : Cardinality(CountedBy(t, h, last)) >= PickUp[r][t]

(* What the counters of a relay in state s say of its history h: before    *)
(* the breaker runs, no timer has counted more than it may; while it runs, *)
(* one had counted the pick-up time when it started.                       *)
Counted(r, s, h) ==
  /\ ~s.flag => /\ s.brk = 0
                /\ \A t \in Timers(r) : s.pick[t] <= Cardinality(CountedBy(t, h, Len(h)))
  /\ s.flag => /\ 0 < s.brk /\ s.brk < Breaker[r] /\ Armed(r, s.pick)
               /\ Enough(r, h, Len(h) - s.brk + 1)

TypeInv == /\ \A r \in Relay : relay[r] \in RelayState(r)
           /\ past \in [Relay -> Seq(SUBSET Timer)]
CountInv == \A r \in Relay : Counted(r, relay[r], past[r])

(* The inductive invariant. *)
IInv == TypeInv /\ CountInv

-----------------------------------------------------------------------------
(* A history, one evaluation later. *)
LEMMA Later ==
  ASSUME NEW S, NEW h \in Seq(S), NEW x \in S
  PROVE  /\ Append(h, x) \in Seq(S)
         /\ Len(Append(h, x)) = Len(h) + 1 /\ Len(h) \in Nat
         /\ Append(h, x)[Len(h) + 1] = x
         /\ \A k \in 1 .. Len(h) : Append(h, x)[k] = h[k]
  OBVIOUS

(* The evaluations that a timer may count have a number. *)
LEMMA CountedFinite ==
  ASSUME NEW t, NEW h, NEW last \in Int
  PROVE  /\ IsFiniteSet(CountedBy(t, h, last))
         /\ Cardinality(CountedBy(t, h, last)) \in Nat
<1>1. CountedBy(t, h, last) \subseteq 1 .. last
  BY DEF CountedBy
<1>2. IsFiniteSet(1 .. last)
  BY FS_Interval
<1> QED
  BY <1>1, <1>2, FS_Subset, FS_CardinalityType

(* What a timer may count does not change with what comes later. *)
LEMMA CountedSame ==
  ASSUME NEW t, NEW S, NEW h \in Seq(S), NEW x \in S, NEW last \in Int, last <= Len(h)
  PROVE  CountedBy(t, Append(h, x), last) = CountedBy(t, h, last)
<1> DEFINE g == Append(h, x)
<1>1. \A k \in 1 .. last : g[k] = h[k]
  BY Later
<1> HIDE DEF g
<1>2. \A k \in 1 .. last : \A l \in k .. last : l \in 1 .. last
  OBVIOUS
<1>3. ASSUME NEW k \in 1 .. last
      PROVE  (t \in g[k] /\ \A l \in k .. last : ~Ended(t, g[l]))
             <=> (t \in h[k] /\ \A l \in k .. last : ~Ended(t, h[l]))
  BY <1>1, <1>2
<1> QED
  BY <1>3 DEF CountedBy, g

(* How many evaluations a timer may count after one more. *)
LEMMA CountedNext ==
  ASSUME NEW t, NEW S, NEW h \in Seq(S), NEW x \in S
  PROVE  LET g == Append(h, x)
             m == Cardinality(CountedBy(t, h, Len(h)))
             n == Cardinality(CountedBy(t, g, Len(g)))
         IN  /\ m \in Nat /\ n \in Nat
             /\ t \in x => n = m + 1
             /\ t \notin x /\ ~Ended(t, x) => n = m
<1> DEFINE g == Append(h, x)
           A == CountedBy(t, h, Len(h))
           B == CountedBy(t, g, Len(g))
<1>1. /\ Len(g) = Len(h) + 1 /\ Len(h) \in Nat /\ g[Len(h) + 1] = x
      /\ \A k \in 1 .. Len(h) : g[k] = h[k]
  BY Later
<1>2. /\ IsFiniteSet(A) /\ Cardinality(A) \in Nat
      /\ IsFiniteSet(B) /\ Cardinality(B) \in Nat
  BY <1>1, CountedFinite
<1>3. Len(h) + 1 \notin A
  BY <1>1 DEF CountedBy
<1> HIDE DEF g
<1>4. \A k : k \in A <=> k \in 1 .. Len(h) /\ t \in g[k] /\ \A l \in k .. Len(h) : ~Ended(t, g[l])
  <2>1. \A k \in 1 .. Len(h) : \A l \in k .. Len(h) : g[l] = h[l]
    BY <1>1
  <2> QED
    BY <1>1, <2>1 DEF CountedBy
<1>5. \A k : k \in B <=> /\ k \in 1 .. (Len(h) + 1) /\ t \in g[k]
                         /\ \A l \in k .. (Len(h) + 1) : ~Ended(t, g[l])
  BY <1>1 DEF CountedBy
<1> HIDE DEF A, B
<1>6. ~Ended(t, x) =>
        \A k \in 1 .. Len(h) :
          (\A l \in k .. (Len(h) + 1) : ~Ended(t, g[l]))
          <=> (\A l \in k .. Len(h) : ~Ended(t, g[l]))
  BY <1>1
<1>7. t \in x => ~Ended(t, x)
  BY DEF Ended
<1>8. ASSUME t \in x PROVE Cardinality(B) = Cardinality(A) + 1
  <2>1. \A l \in (Len(h) + 1) .. (Len(h) + 1) : ~Ended(t, g[l])
    BY <1>1, <1>7, <1>8
  <2>2. \A k : k \in B <=> k \in A \/ k = Len(h) + 1
    BY <1>1, <1>4, <1>5, <1>6, <1>7, <1>8, <2>1
  <2>3. B = A \cup {Len(h) + 1}
    BY <2>2
  <2> QED
    BY <1>2, <1>3, <2>3, FS_AddElement
<1>9. ASSUME t \notin x, ~Ended(t, x) PROVE Cardinality(B) = Cardinality(A)
  <2>1. \A k : k \in B <=> k \in A
    BY <1>1, <1>4, <1>5, <1>6, <1>9
  <2>2. B = A
    BY <2>1
  <2> QED
    BY <2>2
<1> QED
  BY <1>2, <1>8, <1>9 DEF A, B, g

(* The pick-up counters of a relay of any kind: they do not run unless the *)
(* condition holds, and are zero when an evaluation finds it ended.        *)
LEMMA PickLaw ==
  ASSUME NEW r \in Relay, relay[r] \in RelayState(r), NEW x
  PROVE  LET q == NextPick(r, x)
         IN  /\ q \in [Timers(r) -> Nat]
             /\ relay[r].flag => q = relay[r].pick
             /\ ~relay[r].flag =>
                  \A t \in Timers(r) :
                    /\ t \in x => q[t] <= relay[r].pick[t] + 1
                    /\ t \notin x /\ ~Ended(t, x) => q[t] <= relay[r].pick[t]
                    /\ Ended(t, x) => q[t] = 0
<1> DEFINE p == relay[r].pick
<1>1. p \in [Timers(r) -> Nat]
  BY DEF RelayState
<1>2. CASE relay[r].flag
  BY <1>1, <1>2 DEF NextPick
<1>3. CASE ~relay[r].flag /\ r \in DOMAIN LineRelay
  <2>1. Timers(r) = {"zone1", "zone2"} /\ NextPick(r, x) = LinePick(p, x)
    BY <1>3 DEF Timers, NextPick
  <2> HIDE DEF p
  <2>2. p.zone1 \in Nat /\ p.zone2 \in Nat /\ DOMAIN p = {"zone1", "zone2"}
    BY <1>1, <2>1
  <2>3. CASE "zone2" \notin x
    <3>1. LinePick(p, x) \in [{"zone1", "zone2"} -> Nat]
      BY <1>1, <2>1, <2>3 DEF LinePick
    <3>2. LinePick(p, x)["zone1"] = p["zone1"] /\ LinePick(p, x)["zone2"] = 0
      BY <2>2, <2>3 DEF LinePick
    <3>3. ~Ended("zone1", x)
      BY <2>3 DEF Ended
    <3> QED
      BY <1>3, <2>1, <2>2, <2>3, <3>1, <3>2, <3>3 DEF p
  <2>4. CASE "zone2" \in x
    <3>1. LinePick(p, x) = [zone1 |-> IF "zone1" \in x THEN p.zone1 + 1 ELSE 0,
                            zone2 |-> p.zone2 + 1]
      BY <2>4 DEF LinePick
    <3>2. LinePick(p, x) \in [{"zone1", "zone2"} -> Nat]
      BY <2>2, <3>1
    <3>3. /\ LinePick(p, x)["zone1"] = IF "zone1" \in x THEN p["zone1"] + 1 ELSE 0
          /\ LinePick(p, x)["zone2"] = p["zone2"] + 1
      BY <3>1
    <3>4. ~Ended("zone2", x) /\ ("zone1" \notin x => Ended("zone1", x))
          /\ ("zone1" \in x => ~Ended("zone1", x))
      BY <2>4 DEF Ended
    <3> QED
      BY <1>3, <2>1, <2>2, <2>4, <3>2, <3>3, <3>4 DEF p
  <2> QED
    BY <2>3, <2>4
<1>4. CASE ~relay[r].flag /\ r \notin DOMAIN LineRelay
  <2>1. "zone1" \notin Timers(r) /\ NextPick(r, x) = BusPick(p, x) /\ DOMAIN p = Timers(r)
    BY <1>1, <1>4 DEF Timers, NextPick
  <2>2. BusPick(p, x) \in [Timers(r) -> Nat]
    BY <1>1, <2>1 DEF BusPick
  <2>3. \A t \in Timers(r) : /\ t # "zone1" /\ p[t] \in Nat
                             /\ BusPick(p, x)[t] = IF t \in x THEN p[t] + 1 ELSE 0
    BY <1>1, <2>1 DEF BusPick
  <2>4. \A t \in Timers(r) : Ended(t, x) <=> t \notin x
    BY <2>3 DEF Ended
  <2> QED
    BY <1>4, <2>1, <2>2, <2>3, <2>4
<1> QED
  BY <1>2, <1>3, <1>4

Tripped(r, s) == [op |-> s.op, out |-> TRUE, flag |-> FALSE, pick |-> NoPick(r), brk |-> 0]
Running(s, q) == [op |-> s.op, out |-> FALSE, flag |-> TRUE, pick |-> q, brk |-> s.brk + 1]
Waiting(s, q) == [op |-> s.op, out |-> s.out, flag |-> FALSE, pick |-> q, brk |-> s.brk]

(* The law of the counters: how they go from a history g to the one with x *)
(* added, q being the new pick-up counters.                                *)
LEMMA CountLaw ==
  ASSUME NEW r \in Relay, NEW s, s = relay[r], s \in RelayState(r),
         NEW g \in Seq(SUBSET Timer), NEW x \in SUBSET Timer, Counted(r, s, g),
         NEW q, q = NextPick(r, x)
  PROVE  LET h == Append(g, x)
             broke == s.brk + 1 >= Breaker[r]
         IN  /\ Armed(r, q) /\ broke =>
                  /\ Counted(r, Tripped(r, s), h)
                  /\ Enough(r, h, Len(h) - Breaker[r] + 1)
             /\ Armed(r, q) /\ ~broke => Counted(r, Running(s, q), h)
             /\ ~Armed(r, q) => Counted(r, Waiting(s, q), h)
             /\ q \in [Timers(r) -> Nat]
<1> DEFINE h == Append(g, x)
           n == Len(g)
           b == Breaker[r]
<1>1. Len(h) = n + 1 /\ n \in Nat
  BY Later
<1>2. /\ s.pick \in [Timers(r) -> Nat] /\ s.brk \in Nat /\ s.flag \in BOOLEAN
      /\ b \in Nat \ {0} /\ \A t \in Timers(r) : PickUp[r][t] \in Nat
  BY RelayAssumption DEF RelayState
<1>3. /\ q \in [Timers(r) -> Nat]
      /\ s.flag => q = s.pick
      /\ ~s.flag => \A t \in Timers(r) :
                      /\ t \in x => q[t] <= s.pick[t] + 1
                      /\ t \notin x /\ ~Ended(t, x) => q[t] <= s.pick[t]
                      /\ Ended(t, x) => q[t] = 0
  BY PickLaw
<1>4. \A t \in Timers(r) : /\ Cardinality(CountedBy(t, g, n)) \in Nat
                           /\ Cardinality(CountedBy(t, h, n + 1)) \in Nat
  BY <1>1, CountedFinite
<1>5. Counted(r, Tripped(r, s), h)
  <2>1. \A t \in Timers(r) : 0 <= Cardinality(CountedBy(t, h, Len(h)))
    BY <1>1, <1>4
  <2>2. /\ Tripped(r, s).flag = FALSE /\ Tripped(r, s).brk = 0
        /\ \A t \in Timers(r) : Tripped(r, s).pick[t] = 0
    BY DEF Tripped, NoPick
  <2> HIDE DEF h
  <2> QED
    BY <2>1, <2>2 DEF Counted
<1>6. CASE s.flag
  <2>1. /\ 0 < s.brk /\ s.brk < b /\ Armed(r, q) /\ Enough(r, g, n - s.brk + 1)
    BY <1>3, <1>6 DEF Counted
  <2>2. n - s.brk + 1 \in Int /\ n - s.brk + 1 <= Len(g)
    BY <1>1, <1>2, <2>1
  <2>3. \A t : CountedBy(t, h, n - s.brk + 1) = CountedBy(t, g, n - s.brk + 1)
    BY <2>2, CountedSame
  <2>4. Enough(r, h, n - s.brk + 1)
    <3> HIDE DEF h, n
    <3> QED
      BY <2>1, <2>3 DEF Enough
  <2>5. s.brk + 1 >= b => Len(h) - b + 1 = n - s.brk + 1
    <3>1. \A y \in Nat : y < b /\ y + 1 >= b => (n + 1) - b + 1 = n - y + 1
      BY <1>1, <1>2
    <3> QED
      BY <1>1, <1>2, <2>1, <3>1
  <2>6. ~(s.brk + 1 >= b) => Counted(r, Running(s, q), h)
    <3>1. Len(h) - (s.brk + 1) + 1 = n - s.brk + 1
      BY <1>1, <1>2
    <3>2. ~(s.brk + 1 >= b) => 0 < s.brk + 1 /\ s.brk + 1 < b
      BY <1>2
    <3>3. Running(s, q).flag = TRUE /\ Running(s, q).brk = s.brk + 1 /\ Running(s, q).pick = q
      BY DEF Running
    <3> HIDE DEF h, n, b
    <3> QED
      BY <2>1, <2>4, <3>1, <3>2, <3>3 DEF Counted, b
  <2> HIDE DEF h, n, b
  <2> QED
    BY <1>3, <1>5, <2>1, <2>4, <2>5, <2>6 DEF h, b
<1>7. CASE ~s.flag
  <2>1. s.brk = 0 /\ \A t \in Timers(r) : s.pick[t] <= Cardinality(CountedBy(t, g, n))
    BY <1>7 DEF Counted
  <2>2. ASSUME NEW t \in Timers(r)
        PROVE  q[t] <= Cardinality(CountedBy(t, h, n + 1))
    <3> DEFINE y == Cardinality(CountedBy(t, g, n))
               z == Cardinality(CountedBy(t, h, n + 1))
    <3>1. /\ y \in Nat /\ z \in Nat
          /\ t \in x => z = y + 1
          /\ t \notin x /\ ~Ended(t, x) => z = y
      BY <1>1, <1>4, CountedNext
    <3>2. s.pick[t] \in Nat /\ q[t] \in Nat /\ s.pick[t] <= y
      BY <1>2, <1>3, <2>1
    <3>3. /\ t \in x => q[t] <= s.pick[t] + 1
          /\ t \notin x /\ ~Ended(t, x) => q[t] <= s.pick[t]
          /\ Ended(t, x) => q[t] = 0
      BY <1>3, <1>7
    <3> HIDE DEF y, z
    <3>4. q[t] <= z
      BY <3>1, <3>2, <3>3
    <3> QED
      BY <3>4 DEF z
  <2> HIDE DEF h, n
  <2>3. Counted(r, Waiting(s, q), h)
    BY <1>1, <2>1, <2>2 DEF Counted, Waiting
  <2>4. Armed(r, q) => Enough(r, h, n + 1)
    <3>1. \A t \in Timers(r) : q[t] >= PickUp[r][t] =>
            Cardinality(CountedBy(t, h, n + 1)) >= PickUp[r][t]
      BY <1>2, <1>3, <1>4, <2>2
    <3> QED
      BY <3>1 DEF Armed, Enough
  <2>5. s.brk + 1 >= b => Len(h) - b + 1 = n + 1
    BY <1>1, <1>2, <2>1
  <2>6. Armed(r, q) /\ ~(s.brk + 1 >= b) => Counted(r, Running(s, q), h)
    <3>1. Len(h) - (s.brk + 1) + 1 = n + 1 /\ 0 < s.brk + 1
      BY <1>1, <2>1
    <3>2. ~(s.brk + 1 >= b) => s.brk + 1 < b
      BY <1>2
    <3>3. Running(s, q).flag = TRUE /\ Running(s, q).brk = s.brk + 1 /\ Running(s, q).pick = q
      BY DEF Running
    <3> HIDE DEF b
    <3> QED
      BY <2>4, <3>1, <3>2, <3>3 DEF Counted, b
  <2> HIDE DEF b
  <2> QED
    BY <1>3, <1>5, <2>3, <2>4, <2>5, <2>6 DEF h, b
<1> QED
  BY <1>2, <1>6, <1>7

(* One evaluation of relay r keeps its counters true of its history, and   *)
(* the relay operates only after its pick-up and breaker times.            *)
LEMMA OneEvaluation ==
  ASSUME TypeInv, CountInv, NEW r \in Relay, NEW x \in SUBSET Timer,
         NEW h, h = Append(past[r], x)
  PROVE  /\ Evaluated(r, x) \in RelayState(r) /\ h \in Seq(SUBSET Timer)
         /\ Evaluated(r, x).op = relay[r].op
         /\ Counted(r, Evaluated(r, x), h)
         /\ Operates(r, x) => Enough(r, h, Len(h) - Breaker[r] + 1)
<1> DEFINE s == relay[r]
           b == Breaker[r]
           q == NextPick(r, x)
<1>1. s \in RelayState(r) /\ past[r] \in Seq(SUBSET Timer)
  BY DEF TypeInv
<1>2. b \in Nat \ {0} /\ Counted(r, s, past[r])
  BY RelayAssumption DEF CountInv
<1>4. s = [op |-> s.op, out |-> s.out, flag |-> s.flag, pick |-> s.pick, brk |-> s.brk]
  BY <1>1 DEF RelayState
<1>5. /\ s.brk \in Nat /\ s.flag \in BOOLEAN /\ s.out \in BOOLEAN /\ s.op \in BOOLEAN
      /\ NoPick(r) \in [Timers(r) -> Nat] /\ h \in Seq(SUBSET Timer)
  BY <1>1, Later DEF RelayState, NoPick
<1>6. /\ Armed(r, q) /\ s.brk + 1 >= b =>
           /\ Counted(r, Tripped(r, s), h)
           /\ Enough(r, h, Len(h) - b + 1)
      /\ Armed(r, q) /\ ~(s.brk + 1 >= b) => Counted(r, Running(s, q), h)
      /\ ~Armed(r, q) => Counted(r, Waiting(s, q), h)
      /\ q \in [Timers(r) -> Nat]
  BY <1>1, <1>2, CountLaw
<1>7. CASE Armed(r, q) /\ s.brk + 1 >= b
  <2>1. Evaluated(r, x) = Tripped(r, s)
    BY <1>4, <1>7 DEF Evaluated, Tripped, Armed
  <2>2. Tripped(r, s) \in RelayState(r) /\ Tripped(r, s).op = s.op
    BY <1>5 DEF Tripped, RelayState
  <2> QED
    BY <1>5, <1>6, <1>7, <2>1, <2>2
<1>8. CASE Armed(r, q) /\ ~(s.brk + 1 >= b)
  <2>1. Evaluated(r, x) = Running(s, q)
    BY <1>4, <1>5, <1>8 DEF Evaluated, Running, Armed
  <2>2. Running(s, q) \in RelayState(r) /\ Running(s, q).op = s.op /\ ~Running(s, q).out
    BY <1>5, <1>6 DEF Running, RelayState
  <2> QED
    BY <1>5, <1>6, <1>8, <2>1, <2>2 DEF Operates
<1>9. CASE ~Armed(r, q)
  <2>1. Evaluated(r, x) = Waiting(s, q)
    <3>1. s.brk + 0 = s.brk /\ (\E t \in Timers(r) : q[t] >= PickUp[r][t]) = FALSE
      BY <1>5, <1>9 DEF Armed
    <3>2. Evaluated(r, x) = [s EXCEPT !.out = s.out, !.flag = FALSE, !.pick = q, !.brk = s.brk]
      BY <1>9, <3>1 DEF Evaluated
    <3> QED
      BY <1>4, <3>2 DEF Waiting
  <2>2. Waiting(s, q) \in RelayState(r) /\ Waiting(s, q).op = s.op /\ Waiting(s, q).out = s.out
    BY <1>5, <1>6 DEF Waiting, RelayState
  <2> QED
    BY <1>5, <1>6, <1>9, <2>1, <2>2 DEF Operates
<1> QED
  BY <1>7, <1>8, <1>9

Patience ==
  \A r \in Relay :
    Operated(r)' /\ ~Operated(r) =>
      LET last == Len(past'[r]) - Breaker[r] + 1
      IN \E t \in Timers(r) :
           Cardinality(CountedBy(t, past'[r], last)) >= PickUp[r][t]

(* The evaluation of any set of relays, whatever they see. *)
LEMMA Evaluation ==
  ASSUME IInv, NEW rs \in SUBSET Relay, NEW x \in Sights(rs),
         relay' = AfterUpdate(rs, x), Remember(rs, x)
  PROVE  IInv' /\ Patience
<1>0. \A r \in rs : x[r] \in SUBSET Timer
  BY DEF Sights
<1>1. ASSUME NEW r \in Relay
      PROVE  /\ relay'[r] \in RelayState(r) /\ past'[r] \in Seq(SUBSET Timer)
             /\ Counted(r, relay'[r], past'[r])
             /\ Operated(r)' /\ ~Operated(r) =>
                  Enough(r, past'[r], Len(past'[r]) - Breaker[r] + 1)
  <2>1. CASE r \in rs
    <3> DEFINE h == Append(past[r], x[r])
               e == Evaluated(r, x[r])
               o == Operates(r, x[r])
    <3>1. /\ e \in RelayState(r) /\ h \in Seq(SUBSET Timer)
          /\ Counted(r, e, h) /\ e.op = relay[r].op
          /\ o => Enough(r, h, Len(h) - Breaker[r] + 1)
      BY <1>0, <2>1, OneEvaluation DEF IInv
    <3>2. past'[r] = h
      BY <2>1 DEF Remember
    <3>3. relay'[r] = [e EXCEPT !.op = @ /\ ~o]
      BY <2>1 DEF AfterUpdate
    <3>4. o \in BOOLEAN
      BY DEF Operates
    <3> HIDE DEF h, e, o
    <3>5. /\ relay'[r] \in RelayState(r)
          /\ relay'[r].flag = e.flag /\ relay'[r].pick = e.pick
          /\ relay'[r].brk = e.brk
          /\ relay'[r].op = (e.op /\ ~o)
      BY <3>1, <3>3, <3>4 DEF RelayState
    <3>6. Counted(r, relay'[r], past'[r])
      BY <3>1, <3>2, <3>5 DEF Counted
    <3>7. Operated(r)' /\ ~Operated(r) => o
      BY <3>1, <3>5 DEF Operated
    <3> QED
      BY <3>1, <3>2, <3>5, <3>6, <3>7
  <2>2. CASE r \notin rs
    <3>1. relay'[r] = relay[r] /\ past'[r] = past[r]
      BY <2>2 DEF AfterUpdate, Remember
    <3> QED
      BY <3>1 DEF IInv, TypeInv, CountInv, Operated
  <2> QED
    BY <2>1, <2>2
<1>2. TypeInv'
  <2>1. past' \in [Relay -> Seq(SUBSET Timer)]
    BY <1>1 DEF Remember
  <2> QED
    BY <1>1, <2>1 DEF TypeInv
<1>3. CountInv'
  BY <1>1 DEF CountInv
<1>4. Patience
  BY <1>1 DEF Patience, Enough
<1> QED
  BY <1>2, <1>3, <1>4 DEF IInv

(* Steps that evaluate no relay. *)
LEMMA NoEvaluation ==
  ASSUME IInv, UNCHANGED <<relay, past>>
  PROVE  IInv' /\ Patience
BY DEF IInv, TypeInv, CountInv, Patience, Operated

(* Every step of the simulation. *)
LEMMA EveryStep ==
  ASSUME IInv, [Next]_vars
  PROVE  IInv' /\ Patience
<1>1. CASE UpdateBusRelay
  <2>1. Watched(BusOrder[i]) \subseteq Relay
    BY DEF Watched, RelaysOf, Relay
  <2>2. PICK x \in Sights(Watched(BusOrder[i])) :
          relay' = AfterUpdate(Watched(BusOrder[i]), x) /\ Remember(Watched(BusOrder[i]), x)
    BY <1>1 DEF UpdateBusRelay
  <2> QED
    BY <2>1, <2>2, Evaluation
<1>2. CASE UpdateBranchRelay
  <2>1. LineRelays(BranchOrder[i]) \subseteq Relay
    BY DEF LineRelays, Relay
  <2>2. PICK x \in Sights(LineRelays(BranchOrder[i])) :
          /\ relay' = AfterUpdate(LineRelays(BranchOrder[i]), x)
          /\ Remember(LineRelays(BranchOrder[i]), x)
    BY <1>2 DEF UpdateBranchRelay
  <2> QED
    BY <2>1, <2>2, Evaluation
<1>3. CASE FaultStart \/ FaultEnd \/ LineSwitch \/ GenSwitch \/ NotDue
  BY <1>3, NoEvaluation DEF FaultStart, FaultEnd, LineSwitch, GenSwitch, NotDue, Handled
<1>4. CASE SolveNetwork \/ SkipRelay \/ OverwriteBuses \/ IncrementBranches
  BY <1>4, NoEvaluation DEF SolveNetwork, SkipRelay, OverwriteBuses, IncrementBranches
<1>5. CASE UNCHANGED vars
  BY <1>5, NoEvaluation DEF vars
<1> QED
  BY <1>1, <1>2, <1>3, <1>4, <1>5 DEF Next

(* The counters of every relay are true of what it has seen. *)
THEOREM Inductive == Spec => []IInv
<1>1. Init => IInv
  <2> SUFFICES ASSUME Init PROVE IInv
    OBVIOUS
  <2>1. <<>> \in Seq(SUBSET Timer) /\ Len(<<>>) = 0
    OBVIOUS
  <2>2. \A r \in Relay : relay[r] = Fresh(r) /\ past[r] = <<>>
    BY DEF Init
  <2>3. TypeInv
    <3>1. \A r \in Relay : Fresh(r) \in RelayState(r)
      BY DEF Fresh, RelayState, NoPick
    <3>2. past \in [Relay -> Seq(SUBSET Timer)]
      BY <2>1 DEF Init
    <3> QED
      BY <2>2, <3>1, <3>2 DEF TypeInv
  <2>4. CountInv
    <3>1. \A t : Cardinality(CountedBy(t, <<>>, 0)) \in Nat
      BY CountedFinite
    <3>2. \A r \in Relay : /\ Fresh(r).flag = FALSE /\ Fresh(r).brk = 0
                           /\ \A t \in Timers(r) : Fresh(r).pick[t] = 0
      BY DEF Fresh, NoPick
    <3> QED
      BY <2>1, <2>2, <3>1, <3>2 DEF CountInv, Counted
  <2> QED
    BY <2>3, <2>4 DEF IInv
<1>2. IInv /\ [Next]_vars => IInv'
  BY EveryStep
<1> QED
  BY <1>1, <1>2, PTL DEF Spec

(* A relay operates only when one of its conditions held in as many of its *)
(* evaluations as its pick-up time has, without one in between that found  *)
(* it ended, up to the one at which its breaker time began.                *)
THEOREM RelayAlwaysPatient == Spec => RelayIsPatient
<1>1. IInv /\ [Next]_vars => [Patience]_vars
  BY EveryStep
<1> QED
  BY <1>1, Inductive, PTL DEF Spec, RelayIsPatient, Patience

-----------------------------------------------------------------------------
(* The matrix is that of the network. *)

-----------------------------------------------------------------------------
(* The inductive invariant of the matrix. *)

NetType ==
  /\ now \in Nat /\ i \in Nat \ {0}
  /\ pc \in {"events", "buses", "branches", "done"}
  /\ events \in EventLists
  /\ diag \in [Bus -> [Part -> Int]] /\ nominal \in [Bus -> [Part -> Int]]
  /\ off \in [Circuit \cup Rest -> Int]
  /\ busFault \in [Bus -> BOOLEAN]
  /\ lineStatus \in [Circuit -> BOOLEAN] /\ inService \in [Gen -> BOOLEAN]
  /\ busTrip \in [Bus -> BOOLEAN] /\ anyTrip \in BOOLEAN
  /\ newTrip \in [Branch -> SUBSET Circuit]
  /\ trippedBy \in [Bus -> Branch \cup {None}]

(* The devices are as the events up to now have left them. *)
SaysInv ==
  pc # "done" =>
    /\ \A c \in Circuit : lineStatus[c] <=> Says("line", "line", c)
    /\ \A g \in Gen : GenBus[g] \notin RelayBuses =>
                        (inService[g] <=> Says("gen", "gen", g))
    /\ \A b \in Bus : busFault[b] <=> FaultActive(b)

(* The flags of the relays that have tripped. *)
FlagInv ==
  /\ pc = "buses" /\ i = 1 => ~anyTrip
  /\ \A b \in Bus : busTrip[b] => b \in RelayBuses
  /\ \A br \in Branch : \A c \in newTrip[br] : c \in RelayLines /\ BranchOf[c] = br
  /\ \A b \in Bus :
       trippedBy[b] # None => /\ b \in Range(Ends[trippedBy[b]])
                              /\ LineRelays(trippedBy[b]) # {}
  /\ pc = "branches" /\ anyTrip =>
       \A br \in Branch : newTrip[br] # {} =>
         \A b \in Range(Ends[br]) : trippedBy[b] = br

(* The circuits that a relay has opened in this step are in the matrix     *)
(* until its end.                                                          *)
Pending(c) == pc = "branches" /\ anyTrip /\ c \in newTrip[BranchOf[c]]
Taken(c) == /\ \E r \in DOMAIN LineRelay : LineRelay[r] = c /\ Operated(r)
            /\ ~Pending(c)
LineIn(c) == lineStatus[c] /\ ~Taken(c)

(* What is in the matrix at a bus without relays, and in the own element   *)
(* of a bus with relays.                                                   *)
RestIn(p, b) == \E c \in Circuit : p = RestOf[c] /\ AtBus(c, b) /\ lineStatus[c]
InElement(p, b) ==
  \/ p = Fault /\ busFault[b]
  \/ p \in Circuit /\ AtBus(p, b) /\ LineIn(p)
  \/ RestIn(p, b)
  \/ p \in Gen /\ GenBus[p] = b /\ inService[p]
InNominal(p, b) ==
  /\ BuiltDiag(b)[p] = 1
  /\ ~ \E r \in RelaysOf(b) : BusRelay[r].part = p /\ Operated(r)

Num(x) == IF x THEN 1 ELSE 0

LineInv == \A c \in Circuit : /\ off[c] = Num(LineIn(c))
                              /\ off[RestOf[c]] = Num(lineStatus[c])
PlainInv ==
  \A b \in Bus \ RelayBuses : \A p \in Part : diag[b][p] = Num(InElement(p, b))
NominalInv ==
  \A b \in RelayBuses : \A p \in Part : nominal[b][p] = Num(InNominal(p, b))
RelayBusInv ==
  \A b \in RelayBuses :
    diag[b] = nominal[b] \/ (pc = "buses" /\ anyTrip /\ busTrip[b])

(* A circuit that is waiting to be taken off belongs to a relay that has   *)
(* operated.                                                               *)
PendingInv ==
  \A r \in DOMAIN LineRelay : Pending(LineRelay[r]) => Operated(r)

NetInv == /\ NetType /\ SaysInv /\ FlagInv /\ PendingInv
          /\ LineInv /\ PlainInv /\ NominalInv /\ RelayBusInv

-----------------------------------------------------------------------------
(* The parts of the circuits are told apart, from each other and from the  *)
(* other devices.                                                          *)
LEMMA PartsApart ==
  ASSUME NetworkInput
  PROVE  /\ \A c \in Circuit :
              /\ RestOf[c] \in Rest /\ RestOf[c] \in Part
              /\ RestOf[c] \notin Circuit \cup Gen \cup Sheds /\ RestOf[c] # Fault
              /\ c \in Part /\ c \notin Rest \cup Gen \cup Sheds /\ c # Fault
         /\ \A c, d \in Circuit : RestOf[c] = RestOf[d] => c = d
         /\ \A p \in Rest : \E c \in Circuit : p = RestOf[c]
         /\ \A p \in Gen \cup Sheds : p \notin Circuit /\ p \notin Rest /\ p # Fault
         /\ Fault \notin Circuit \cup Rest \cup Gen
         /\ Gen \cap Sheds = {}
<1>1. \A c \in Circuit : RestOf[c] \in Rest
  BY DEF NetworkInput
<1>2. \A p \in Rest : \E c \in Circuit : p = RestOf[c]
  BY DEF NetworkInput, Rest, Range
<1>3. \A c, d \in Circuit : RestOf[c] = RestOf[d] => c = d
  BY DEF NetworkInput
<1>4. /\ \A p \in Rest : p \notin Circuit \cup Gen \cup Sheds /\ p # Fault
      /\ \A p \in Circuit : p \notin Rest \cup Gen \cup Sheds /\ p # Fault
      /\ \A p \in Gen \cup Sheds : p \notin Circuit /\ p \notin Rest /\ p # Fault
      /\ Fault \notin Circuit \cup Rest \cup Gen
  BY DEF NetworkInput
<1>5. Gen \cap Sheds = {}
  BY DEF Sheds
<1>6. \A p \in Circuit \cup Rest : p \in Part
  BY DEF Part
<1> QED
  BY <1>1, <1>2, <1>3, <1>4, <1>5, <1>6

(* What a circuit contributes is itself and its rest. *)
LEMMA TwoParts ==
  ASSUME NetworkInput, NEW c \in Circuit, NEW p
  PROVE  /\ p \in Admittance(c) <=> p = c \/ p = RestOf[c]
         /\ p \in Circuit => (p \in Admittance(c) <=> p = c)
  BY PartsApart DEF Admittance

(* A part that is no circuit's rest is not in an element as one. *)
LEMMA NoRest ==
  ASSUME NetworkInput, NEW p, p \notin Rest, NEW b
  PROVE  ~RestIn(p, b)
  BY PartsApart DEF RestIn

(* The rest of a circuit is in where the circuit ends while it is closed. *)
LEMMA RestInLaw ==
  ASSUME NetworkInput, NEW c \in Circuit, NEW b
  PROVE  RestIn(RestOf[c], b) <=> AtBus(c, b) /\ lineStatus[c]
  BY PartsApart DEF RestIn

(* The part that a relay of a bus acts on is in the element of that bus.   *)
LEMMA PartOfRelay ==
  ASSUME NetworkInput, RelayInput, NEW r \in DOMAIN BusRelay
  PROVE  LET p == BusRelay[r].part
             b == BusRelay[r].bus
         IN  /\ p \in Part /\ p \notin Circuit /\ p \notin Rest /\ p # Fault
             /\ b \in RelayBuses /\ r \in RelaysOf(b)
             /\ BuiltDiag(b)[p] = 1
<1> DEFINE p == BusRelay[r].part
           b == BusRelay[r].bus
<1>1. p \in Gen \cup Sheds
  BY DEF Sheds
<1>2. p \in Part /\ p \notin Circuit /\ p \notin Rest /\ p # Fault
  BY <1>1, PartsApart DEF Part
<1>3. r \in RelaysOf(b) /\ b \in RelayBuses
  BY DEF RelaysOf, RelayBuses, RelayInput
<1>4. BuiltDiag(b)[p] = 1
  BY <1>1, <1>2, <1>3 DEF BuiltDiag, RelayInput
<1> QED
  BY <1>2, <1>3, <1>4

(* The circuit of a line relay, and where it ends. *)
LEMMA LineOfRelay ==
  ASSUME NetworkInput, RelayInput, NEW c \in RelayLines
  PROVE  /\ c \in Circuit /\ BranchOf[c] \in Branch
         /\ LineRelays(BranchOf[c]) # {}
         /\ \A b \in Range(Ends[BranchOf[c]]) : b \notin RelayBuses
<1>1. c \in Circuit /\ BranchOf[c] \in Branch
  BY DEF NetworkInput, RelayInput, RelayLines
<1>2. LineRelays(BranchOf[c]) # {}
  BY DEF RelayLines, LineRelays
<1>3. \A b \in Range(Ends[BranchOf[c]]) : b \notin RelayBuses
  BY DEF RelayInput, AtBus
<1> QED
  BY <1>1, <1>2, <1>3

(* The ends of a branch are buses, the first of them is an end. *)
LEMMA EndsOfBranch ==
  ASSUME NetworkInput, NEW c \in Circuit
  PROVE  /\ Range(Ends[BranchOf[c]]) \subseteq Bus
         /\ Ends[BranchOf[c]][1] \in Bus /\ AtBus(c, Ends[BranchOf[c]][1])
<1>1. PICK e \in Bus \X Bus : Ends[BranchOf[c]] = e
  BY DEF NetworkInput
<1>2. DOMAIN e = 1 .. 2 /\ e[1] \in Bus /\ e[2] \in Bus
  OBVIOUS
<1> QED
  BY <1>1, <1>2 DEF Range, AtBus

(* The event that is being looked at. *)
LEMMA EventAt ==
  ASSUME InputAssumed, NetType, NEW k \in DOMAIN events
  PROVE  /\ k \in Nat \ {0} /\ Proper(events[k])
         /\ events[k].kind \in {"fault", "line", "gen"}
         /\ events[k].kind = "fault" => /\ events[k].bus \in Bus
                                        /\ events[k].start \in Nat
                                        /\ events[k].end \in Nat
         /\ events[k].kind = "line" => /\ events[k].line \in Circuit
                                       /\ events[k].status \in BOOLEAN
                                       /\ events[k].time \in Nat
         /\ events[k].kind = "gen" => /\ events[k].gen \in Gen
                                      /\ events[k].status \in BOOLEAN
                                      /\ events[k].time \in Nat
<1>1. /\ events \in Seq(FaultEvent \cup LineEvent \cup GenEvent)
      /\ Proper(events[k])
  BY DEF InputAssumed, EventInput, NetType
<1>2. k \in Nat \ {0} /\ events[k] \in FaultEvent \cup LineEvent \cup GenEvent
  BY <1>1
<1> QED
  BY <1>1, <1>2 DEF FaultEvent, LineEvent, GenEvent

(* i is the place of an event in the list, or it is beyond its end. *)
LEMMA PlaceInList ==
  ASSUME InputAssumed, NetType
  PROVE  /\ i <= Len(events) <=> i \in DOMAIN events
         /\ i > Len(events) => \A k \in DOMAIN events : k < i
<1>1. events \in Seq(FaultEvent \cup LineEvent \cup GenEvent)
  BY DEF InputAssumed, EventInput, NetType
<1>2. DOMAIN events = 1 .. Len(events) /\ Len(events) \in Nat /\ i \in Nat \ {0}
  BY <1>1 DEF NetType
<1> QED
  BY <1>2

-----------------------------------------------------------------------------
(* The events up to i are handled one by one. *)
LEMMA PastStep ==
  ASSUME NetType, pc = "events", UNCHANGED <<now, pc>>, i' = i + 1,
         NEW t \in Nat, NEW k \in Nat
  PROVE  Past(t, k)' <=> Past(t, k) \/ (t = 2 * now /\ k = i)
<1>1. now \in Nat /\ i \in Nat
  BY DEF NetType
<1>2. k < i + 1 <=> k < i \/ k = i
  BY <1>1
<1> QED
  BY <1>1, <1>2 DEF Past

(* Nothing that the events say changes if none of them comes to pass. *)
SamePast ==
  \A k \in DOMAIN events :
    /\ events[k].kind = "fault" => /\ Past(events[k].start, k)' <=> Past(events[k].start, k)
                                   /\ Past(events[k].end, k)' <=> Past(events[k].end, k)
    /\ events[k].kind # "fault" => (Past(events[k].time, k)' <=> Past(events[k].time, k))

(* Then the events say what they said before. *)
LEMMA SaysSame ==
  ASSUME SamePast, events' = events
  PROVE  /\ \A c : Says("line", "line", c)' <=> Says("line", "line", c)
         /\ \A g : Says("gen", "gen", g)' <=> Says("gen", "gen", g)
         /\ \A b : FaultActive(b)' <=> FaultActive(b)
<1>1. ASSUME NEW kind, NEW field, NEW x, kind # "fault"
      PROVE  Says(kind, field, x)' <=> Says(kind, field, x)
  <2> DEFINE on == {k \in DOMAIN events : /\ events[k].kind = kind
                                          /\ events[k][field] = x
                                          /\ Past(events[k].time, k)}
  <2>1. on' = on
    BY <1>1 DEF SamePast
  <2> QED
    BY <2>1 DEF Says
<1>2. \A b : FaultActive(b)' <=> FaultActive(b)
  BY DEF FaultActive, SamePast
<1> QED
  BY <1>1, <1>2

(* A change of a device that is due has the last word on that device. *)
LEMMA SaysStep ==
  ASSUME InputAssumed, NetType, pc = "events", UNCHANGED <<now, pc, events>>,
         i' = i + 1, i \in DOMAIN events, NEW kind, NEW field, NEW x,
         kind \in {"line", "gen"}
  PROVE  /\ events[i].kind = kind /\ events[i][field] = x /\ events[i].time = 2 * now
              => (Says(kind, field, x)' <=> events[i].status)
         /\ ~(events[i].kind = kind /\ events[i][field] = x /\ events[i].time = 2 * now)
              => (Says(kind, field, x)' <=> Says(kind, field, x))
<1> DEFINE on == {k \in DOMAIN events : /\ events[k].kind = kind
                                        /\ events[k][field] = x
                                        /\ Past(events[k].time, k)}
           After(k, l) == \/ events[k].time > events[l].time
                          \/ events[k].time = events[l].time /\ k >= l
<1>1. Says(kind, field, x) <=> \A k \in on : (\A l \in on : After(k, l)) => events[k].status
  BY DEF Says
<1>2. Says(kind, field, x)' <=> \A k \in on' : (\A l \in on' : After(k, l)) => events[k].status
  BY DEF Says
<1>3. \A k \in DOMAIN events : events[k].kind = kind => events[k].time \in Nat /\ k \in Nat
  BY EventAt
<1>4. \A k \in DOMAIN events :
        events[k].kind = kind =>
          (Past(events[k].time, k)' <=> Past(events[k].time, k)
                                        \/ (events[k].time = 2 * now /\ k = i))
  BY <1>3, PastStep
<1>5. CASE ~(events[i].kind = kind /\ events[i][field] = x /\ events[i].time = 2 * now)
  <2>1. on' = on
    BY <1>4, <1>5
  <2> QED
    BY <1>1, <1>2, <1>5, <2>1
<1>6. CASE events[i].kind = kind /\ events[i][field] = x /\ events[i].time = 2 * now
  <2>1. i \in on'
    BY <1>4, <1>6
  <2>2. \A k \in on' : After(i, k) /\ (k # i => ~After(k, i))
    <3> SUFFICES ASSUME NEW k \in on' PROVE After(i, k) /\ (k # i => ~After(k, i))
      OBVIOUS
    <3>1. /\ k \in DOMAIN events /\ events[k].kind = kind
          /\ k = i \/ Past(events[k].time, k)
      BY <1>4
    <3>2. events[k].time \in Nat /\ k \in Nat /\ now \in Nat /\ i \in Nat
      BY <1>3, <3>1 DEF NetType
    <3>3. k = i \/ events[k].time < 2 * now \/ (events[k].time = 2 * now /\ k < i)
      BY <3>1 DEF Past
    <3> QED
      BY <1>6, <3>2, <3>3
  <2> HIDE DEF on, After
  <2>3. \A k \in on' : (\A l \in on' : After(k, l)) <=> k = i
    BY <2>1, <2>2
  <2> QED
    BY <1>2, <1>6, <2>1, <2>3
<1> QED
  BY <1>5, <1>6

(* A device that no event names stays as it was built. *)
LEMMA SaysNothing ==
  ASSUME NEW kind, NEW field, NEW x,
         \A k \in DOMAIN events : ~(events[k].kind = kind /\ events[k][field] = x)
  PROVE  Says(kind, field, x)
  BY DEF Says

(* No event is about a part that a relay acts on. *)
LEMMA RelaysApart ==
  ASSUME InputAssumed, NetType
  PROVE  /\ \A b \in RelayBuses : ~FaultActive(b)
         /\ \A c \in RelayLines : Says("line", "line", c)
         /\ \A c \in Circuit : \A b \in RelayBuses :
              AtBus(c, b) => Says("line", "line", c)
         /\ \A g \in Gen : GenBus[g] \in RelayBuses => Says("gen", "gen", g)
<1>1. \A b \in RelayBuses : ~FaultActive(b)
  BY EventAt DEF FaultActive, Proper
<1>2. \A c \in RelayLines : Says("line", "line", c)
  <2> SUFFICES ASSUME NEW c \in RelayLines PROVE Says("line", "line", c)
    OBVIOUS
  <2>1. \A k \in DOMAIN events : ~(events[k].kind = "line" /\ events[k]["line"] = c)
    BY EventAt DEF Proper
  <2> QED
    BY <2>1, SaysNothing
<1>3. \A c \in Circuit : \A b \in RelayBuses : AtBus(c, b) => Says("line", "line", c)
  <2> SUFFICES ASSUME NEW c \in Circuit, NEW b \in RelayBuses, AtBus(c, b)
               PROVE  Says("line", "line", c)
    OBVIOUS
  <2>1. \A k \in DOMAIN events : ~(events[k].kind = "line" /\ events[k]["line"] = c)
    BY EventAt DEF Proper
  <2> QED
    BY <2>1, SaysNothing
<1>4. \A g \in Gen : GenBus[g] \in RelayBuses => Says("gen", "gen", g)
  <2> SUFFICES ASSUME NEW g \in Gen, GenBus[g] \in RelayBuses PROVE Says("gen", "gen", g)
    OBVIOUS
  <2>1. \A k \in DOMAIN events : ~(events[k].kind = "gen" /\ events[k]["gen"] = g)
    BY EventAt DEF Proper
  <2> QED
    BY <2>1, SaysNothing
<1> QED
  BY <1>1, <1>2, <1>3, <1>4

-----------------------------------------------------------------------------
(* What handling an event leaves as it was. *)
LEMMA HandledKeeps ==
  ASSUME NetInv, pc = "events", Handled
  PROVE  /\ now' \in Nat /\ i' \in Nat \ {0} /\ pc' = "events" /\ now' = now
         /\ events' = events /\ i' = i + 1 /\ events' \in EventLists
         /\ busTrip' \in [Bus -> BOOLEAN] /\ anyTrip' \in BOOLEAN
         /\ newTrip' \in [Branch -> SUBSET Circuit]
         /\ trippedBy' \in [Bus -> Branch \cup {None}]
         /\ FlagInv' /\ PendingInv'
         /\ \A c : Taken(c)' <=> Taken(c)
         /\ \A p, b : InNominal(p, b)' <=> InNominal(p, b)
<1>1. /\ pc' = "events" /\ now' = now /\ i' = i + 1 /\ events' = events
      /\ relay' = relay /\ busTrip' = busTrip /\ anyTrip' = anyTrip
      /\ newTrip' = newTrip /\ trippedBy' = trippedBy
  BY DEF Handled, trips
<1>2. now' \in Nat /\ i' \in Nat \ {0} /\ events' \in EventLists
  BY <1>1 DEF NetInv, NetType
<1>3. /\ busTrip' \in [Bus -> BOOLEAN] /\ anyTrip' \in BOOLEAN
      /\ newTrip' \in [Branch -> SUBSET Circuit]
      /\ trippedBy' \in [Bus -> Branch \cup {None}]
  BY <1>1 DEF NetInv, NetType
<1>4. FlagInv' /\ PendingInv'
  BY <1>1 DEF NetInv, FlagInv, PendingInv, Pending
<1>5. \A c : Taken(c)' <=> Taken(c)
  BY <1>1 DEF Taken, Pending, Operated
<1>6. \A p, b : InNominal(p, b)' <=> InNominal(p, b)
  BY <1>1 DEF InNominal, Operated
<1> QED
  BY <1>1, <1>2, <1>3, <1>4, <1>5, <1>6

(* A device keeps what is said of it if the event is not about it. *)
LEMMA SaysOfOthers ==
  ASSUME InputAssumed, NetInv, pc = "events", Handled, i \in DOMAIN events
  PROVE  /\ events[i].kind # "line" =>
              \A c : Says("line", "line", c)' <=> Says("line", "line", c)
         /\ events[i].kind # "gen" =>
              \A g : Says("gen", "gen", g)' <=> Says("gen", "gen", g)
         /\ events[i].kind # "fault" => \A b : FaultActive(b)' <=> FaultActive(b)
<1>1. NetType /\ UNCHANGED <<now, pc, events>> /\ i' = i + 1
  BY DEF NetInv, Handled
<1>2. events[i].kind # "line" =>
              \A c : Says("line", "line", c)' <=> Says("line", "line", c)
  BY <1>1, SaysStep
<1>3. events[i].kind # "gen" =>
              \A g : Says("gen", "gen", g)' <=> Says("gen", "gen", g)
  BY <1>1, SaysStep
<1>4. ASSUME events[i].kind # "fault"
      PROVE  \A b : FaultActive(b)' <=> FaultActive(b)
  <2>1. \A k \in DOMAIN events :
          events[k].kind = "fault" =>
            /\ Past(events[k].start, k)' <=> Past(events[k].start, k)
            /\ Past(events[k].end, k)' <=> Past(events[k].end, k)
    BY <1>1, <1>4, PastStep, EventAt
  <2> QED
    BY <1>1, <2>1 DEF FaultActive
<1> QED
  BY <1>2, <1>3, <1>4

(* The times of a fault event. *)
LEMMA FaultTimes ==
  ASSUME InputAssumed, NetType, NEW k \in DOMAIN events, events[k].kind = "fault"
  PROVE  /\ k \in Nat /\ events[k].bus \in Bus \ RelayBuses
         /\ events[k].start \in Nat /\ events[k].end \in Nat
         /\ events[k].start < events[k].end
         /\ \A l \in DOMAIN events : l # k /\ events[l].kind = "fault" =>
              Over(events, k, l) \/ Over(events, l, k)
<1>1. /\ k \in Nat /\ events[k].bus \in Bus \ RelayBuses
      /\ events[k].start \in Nat /\ events[k].end \in Nat
      /\ events[k].start < events[k].end
  BY EventAt DEF Proper
<1>2. \A l \in DOMAIN events : l # k /\ events[l].kind = "fault" =>
              Over(events, k, l) \/ Over(events, l, k)
  BY DEF InputAssumed, EventInput, NetType
<1> QED
  BY <1>1, <1>2

(* A fault starts when there is none, and is then the only one. *)
LEMMA OneFaultStarts ==
  ASSUME InputAssumed, NetInv, FaultStart
  PROVE  /\ \A b : ~FaultActive(b)
         /\ \A b : FaultActive(b)' <=> b = events[i].bus
<1>1. /\ NetType /\ UNCHANGED <<now, pc, events>> /\ i' = i + 1 /\ pc = "events"
      /\ i \in DOMAIN events /\ events[i].kind = "fault" /\ events[i].start = 2 * now
      /\ now \in Nat /\ i \in Nat
  BY PlaceInList DEF NetInv, NetType, FaultStart, Event, Due, Handled
<1>2. \A k \in DOMAIN events : events[k].kind = "fault" =>
        /\ Past(events[k].start, k)' <=> Past(events[k].start, k)
                                         \/ (events[k].start = 2 * now /\ k = i)
        /\ Past(events[k].end, k)' <=> Past(events[k].end, k)
                                       \/ (events[k].end = 2 * now /\ k = i)
  BY <1>1, PastStep, FaultTimes
<1>3. \A k \in DOMAIN events : k = i =>
        /\ ~Past(events[k].start, k)
        /\ Past(events[k].start, k)' /\ ~Past(events[k].end, k)'
  <2>1. events[i].start \in Nat /\ events[i].end \in Nat /\ events[i].start < events[i].end
    BY <1>1, FaultTimes
  <2> QED
    BY <1>1, <1>2, <2>1 DEF Past
<1>4. \A k \in DOMAIN events : k # i /\ events[k].kind = "fault" /\ Past(events[k].start, k) =>
        Past(events[k].end, k)
  <2> SUFFICES ASSUME NEW k \in DOMAIN events, k # i, events[k].kind = "fault",
                      Past(events[k].start, k)
               PROVE  Past(events[k].end, k)
    OBVIOUS
  <2>1. /\ events[i].start < events[i].end
        /\ events[i].start \in Nat /\ events[i].end \in Nat
        /\ events[k].start \in Nat /\ events[k].end \in Nat /\ k \in Nat
        /\ Over(events, i, k) \/ Over(events, k, i)
    BY <1>1, FaultTimes
  <2>2. events[k].start <= 2 * now
    BY <1>1, <2>1 DEF Past
  <2>3. ~Over(events, i, k)
    BY <1>1, <2>1, <2>2 DEF Over
  <2> QED
    BY <1>1, <2>1, <2>3 DEF Over, Past
<1>5. \A b : ~FaultActive(b)
  BY <1>3, <1>4 DEF FaultActive
<1>6. ASSUME NEW b PROVE FaultActive(b)' <=> b = events[i].bus
  <2>1. \A k \in DOMAIN events :
          events[k].kind = "fault" /\ Past(events[k].start, k)' /\ ~Past(events[k].end, k)' =>
            k = i
    BY <1>2, <1>4
  <2> QED
    BY <1>1, <1>3, <2>1 DEF FaultActive
<1> QED
  BY <1>5, <1>6

(* When a fault ends there is no other. *)
LEMMA OneFaultEnds ==
  ASSUME InputAssumed, NetInv, FaultEnd
  PROVE  \A b : ~FaultActive(b)'
<1>1. /\ NetType /\ UNCHANGED <<now, pc, events>> /\ i' = i + 1 /\ pc = "events"
      /\ i \in DOMAIN events /\ events[i].kind = "fault" /\ events[i].end = 2 * now
      /\ now \in Nat /\ i \in Nat
  BY PlaceInList DEF NetInv, NetType, FaultEnd, Event, Due, Handled
<1>2. ASSUME NEW k \in DOMAIN events, events[k].kind = "fault", Past(events[k].start, k)'
      PROVE  Past(events[k].end, k)'
  <2>1. /\ events[k].start \in Nat /\ events[k].end \in Nat /\ k \in Nat
        /\ events[i].start \in Nat /\ events[i].end \in Nat
        /\ events[i].start < events[i].end
        /\ k # i => Over(events, i, k) \/ Over(events, k, i)
    BY <1>1, <1>2, FaultTimes
  <2>2. Past(events[k].end, k)' <=> Past(events[k].end, k)
                                    \/ (events[k].end = 2 * now /\ k = i)
    BY <1>1, <2>1, PastStep
  <2>3. CASE k = i
    BY <1>1, <2>2, <2>3
  <2>4. CASE k # i
    <3>1. Past(events[k].start, k)
      BY <1>1, <1>2, <2>1, <2>4, PastStep
    <3>2. ~Over(events, i, k)
      BY <1>1, <2>1, <3>1 DEF Over, Past
    <3>3. events[k].end <= events[i].start
      BY <2>1, <2>4, <3>2 DEF Over
    <3>4. events[k].end < 2 * now
      BY <1>1, <2>1, <3>3
    <3> QED
      BY <2>2, <3>4 DEF Past
  <2> QED
    BY <2>3, <2>4
<1> QED
  BY <1>1, <1>2 DEF FaultActive

-----------------------------------------------------------------------------
(* matrixDiagValues adds to the elements of the buses that have the flag.  *)
LEMMA AddedFault ==
  ASSUME NEW d \in [Bus -> [Part -> Int]], NEW flags \in [Bus -> BOOLEAN],
         NEW n \in Int
  PROVE  /\ AddFault(d, flags, n) \in [Bus -> [Part -> Int]]
         /\ \A b \in Bus : \A p \in Part :
              AddFault(d, flags, n)[b][p] =
                IF flags[b] /\ p = Fault THEN d[b][p] + n ELSE d[b][p]
         /\ \A b \in Bus : ~flags[b] => AddFault(d, flags, n)[b] = d[b]
<1>1. Fault \in Part
  BY DEF Part
<1>2. ASSUME NEW b \in Bus
      PROVE  /\ AddFault(d, flags, n)[b] \in [Part -> Int]
             /\ \A p \in Part : AddFault(d, flags, n)[b][p] =
                  IF flags[b] /\ p = Fault THEN d[b][p] + n ELSE d[b][p]
             /\ ~flags[b] => AddFault(d, flags, n)[b] = d[b]
  <2>1. d[b] \in [Part -> Int] /\ flags[b] \in BOOLEAN
    OBVIOUS
  <2>2. AddFault(d, flags, n)[b] = IF flags[b] THEN [d[b] EXCEPT ![Fault] = @ + n] ELSE d[b]
    BY DEF AddFault
  <2> QED
    BY <1>1, <2>1, <2>2
<1>3. AddFault(d, flags, n) \in [Bus -> [Part -> Int]]
  BY <1>2 DEF AddFault
<1> QED
  BY <1>2, <1>3

(* The start of a fault. *)
LEMMA FaultStartKeeps ==
  ASSUME InputAssumed, NetInv, FaultStart
  PROVE  NetInv'
<1>1. /\ pc = "events" /\ Handled /\ i \in DOMAIN events /\ events[i].kind = "fault"
      /\ busFault' = [busFault EXCEPT ![events[i].bus] = TRUE]
      /\ diag' = AddFault(diag, busFault', 1)
      /\ UNCHANGED <<off, nominal, lineStatus, genStatus, inService>>
      /\ NetType
  BY PlaceInList DEF NetInv, FaultStart, Event, devices
<1>2. events[i].bus \in Bus \ RelayBuses
  BY <1>1, FaultTimes
<1>3. \A b \in Bus : ~busFault[b] /\ (busFault'[b] <=> b = events[i].bus)
  BY <1>1, <1>2, OneFaultStarts DEF NetInv, NetType, SaysInv
<1>4. diag \in [Bus -> [Part -> Int]] /\ busFault' \in [Bus -> BOOLEAN]
  BY <1>1, <1>2 DEF NetType
<1>5. /\ diag' \in [Bus -> [Part -> Int]]
      /\ \A b \in Bus : \A p \in Part :
           diag'[b][p] = IF busFault'[b] /\ p = Fault THEN diag[b][p] + 1 ELSE diag[b][p]
      /\ \A b \in Bus : ~busFault'[b] => diag'[b] = diag[b]
  <2>1. PICK d, f : d = diag /\ f = busFault'
    OBVIOUS
  <2>2. d \in [Bus -> [Part -> Int]] /\ f \in [Bus -> BOOLEAN]
    BY <1>4, <2>1
  <2>3. /\ AddFault(d, f, 1) \in [Bus -> [Part -> Int]]
        /\ \A b \in Bus : \A p \in Part :
             AddFault(d, f, 1)[b][p] =
               IF f[b] /\ p = Fault THEN d[b][p] + 1 ELSE d[b][p]
        /\ \A b \in Bus : ~f[b] => AddFault(d, f, 1)[b] = d[b]
    BY <2>2, AddedFault
  <2> QED
    BY <1>1, <2>1, <2>3
<1>6. NetType'
  BY <1>1, <1>4, <1>5, HandledKeeps DEF NetType
<1>7. SaysInv'
  <2>1. \A b \in Bus : busFault'[b] <=> FaultActive(b)'
    BY <1>3, OneFaultStarts
  <2> QED
    BY <1>1, <2>1, SaysOfOthers DEF NetInv, SaysInv
<1>8. LineInv'
  BY <1>1, HandledKeeps DEF NetInv, LineInv, LineIn, Num
<1>9. PlainInv'
  <2> SUFFICES ASSUME NEW b \in Bus \ RelayBuses, NEW p \in Part
               PROVE  diag'[b][p] = Num(InElement(p, b))'
    BY DEF PlainInv
  <2>1. diag[b][p] = Num(InElement(p, b))
    BY DEF NetInv, PlainInv
  <2>2. CASE p = Fault
    <3>1. p \notin Circuit /\ p \notin Gen /\ ~RestIn(p, b) /\ ~RestIn(p, b)'
      BY <2>2, PartsApart DEF InputAssumed, RestIn
    <3> QED
      BY <1>3, <1>5, <2>1, <2>2, <3>1 DEF Num, InElement
  <2>3. CASE p # Fault
    BY <1>1, <1>5, <2>1, <2>3, HandledKeeps DEF Num, InElement, LineIn, RestIn
  <2> QED
    BY <2>2, <2>3
<1>10. NominalInv'
  BY <1>1, HandledKeeps DEF NetInv, NominalInv, Num
<1>11. RelayBusInv'
  BY <1>1, <1>2, <1>3, <1>5 DEF NetInv, RelayBusInv, RelayBuses
<1> QED
  BY <1>1, <1>6, <1>7, <1>8, <1>9, <1>10, <1>11, HandledKeeps DEF NetInv

(* The end of a fault. *)
LEMMA FaultEndKeeps ==
  ASSUME InputAssumed, NetInv, FaultEnd
  PROVE  NetInv'
<1>1. /\ pc = "events" /\ Handled /\ i \in DOMAIN events /\ events[i].kind = "fault"
      /\ busFault' = [b \in Bus |-> FALSE]
      /\ diag' = AddFault(diag, busFault, -1)
      /\ nominal' = AddFault(nominal, busFault, -1)
      /\ UNCHANGED <<off, lineStatus, genStatus, inService>>
      /\ NetType
  BY PlaceInList DEF NetInv, FaultEnd, Event, devices
<1>2. \A b \in RelayBuses : ~busFault[b]
  BY <1>1, RelaysApart DEF NetInv, SaysInv, RelayBuses
<1>3. \A b \in Bus : ~busFault'[b]
  BY <1>1
<1>4. /\ diag \in [Bus -> [Part -> Int]] /\ nominal \in [Bus -> [Part -> Int]]
      /\ busFault \in [Bus -> BOOLEAN] /\ busFault' \in [Bus -> BOOLEAN]
  BY <1>1 DEF NetType
<1>5. /\ diag' \in [Bus -> [Part -> Int]]
      /\ \A b \in Bus : \A p \in Part :
           diag'[b][p] = IF busFault[b] /\ p = Fault THEN diag[b][p] - 1 ELSE diag[b][p]
      /\ \A b \in Bus : ~busFault[b] => diag'[b] = diag[b]
  <2>1. PICK d, f, n : d = diag /\ f = busFault /\ n = -1
    OBVIOUS
  <2>2. d \in [Bus -> [Part -> Int]] /\ f \in [Bus -> BOOLEAN] /\ n \in Int
    BY <1>4, <2>1
  <2>3. /\ AddFault(d, f, n) \in [Bus -> [Part -> Int]]
        /\ \A b \in Bus : \A p \in Part :
             AddFault(d, f, n)[b][p] =
               IF f[b] /\ p = Fault THEN d[b][p] + n ELSE d[b][p]
        /\ \A b \in Bus : ~f[b] => AddFault(d, f, n)[b] = d[b]
    BY <2>2, AddedFault
  <2>4. \A b \in Bus : \A p \in Part : d[b][p] \in Int /\ d[b][p] + n = d[b][p] - 1
    BY <2>1, <2>2
  <2> QED
    BY <1>1, <2>1, <2>3, <2>4
<1>6. /\ nominal' \in [Bus -> [Part -> Int]]
      /\ \A b \in Bus : ~busFault[b] => nominal'[b] = nominal[b]
  <2>1. PICK d, f, n : d = nominal /\ f = busFault /\ n = -1
    OBVIOUS
  <2>2. d \in [Bus -> [Part -> Int]] /\ f \in [Bus -> BOOLEAN] /\ n \in Int
    BY <1>4, <2>1
  <2>3. /\ AddFault(d, f, n) \in [Bus -> [Part -> Int]]
        /\ \A b \in Bus : ~f[b] => AddFault(d, f, n)[b] = d[b]
    BY <2>2, AddedFault
  <2> QED
    BY <1>1, <2>1, <2>3
<1>7. NetType'
  BY <1>1, <1>4, <1>5, <1>6, HandledKeeps DEF NetType
<1>8. SaysInv'
  BY <1>1, <1>3, SaysOfOthers, OneFaultEnds DEF NetInv, SaysInv
<1>9. LineInv'
  BY <1>1, HandledKeeps DEF NetInv, LineInv, LineIn, Num
<1>10. PlainInv'
  <2> SUFFICES ASSUME NEW b \in Bus \ RelayBuses, NEW p \in Part
               PROVE  diag'[b][p] = Num(InElement(p, b))'
    BY DEF PlainInv
  <2>1. diag[b][p] = Num(InElement(p, b))
    BY DEF NetInv, PlainInv
  <2>2. CASE p = Fault
    <3>1. p \notin Circuit /\ p \notin Gen /\ ~RestIn(p, b) /\ ~RestIn(p, b)'
      BY <2>2, PartsApart DEF InputAssumed, RestIn
    <3> QED
      BY <1>3, <1>5, <2>1, <2>2, <3>1 DEF Num, InElement
  <2>3. CASE p # Fault
    BY <1>1, <1>5, <2>1, <2>3, HandledKeeps DEF Num, InElement, LineIn, RestIn
  <2> QED
    BY <2>2, <2>3
<1>11. NominalInv'
  BY <1>1, <1>2, <1>6, HandledKeeps DEF NetInv, NominalInv, Num, RelayBuses
<1>12. RelayBusInv'
  BY <1>1, <1>2, <1>5, <1>6 DEF NetInv, RelayBusInv, RelayBuses
<1> QED
  BY <1>1, <1>7, <1>8, <1>9, <1>10, <1>11, <1>12, HandledKeeps DEF NetInv

(* An event that is not due. *)
LEMMA NotDueKeeps ==
  ASSUME InputAssumed, NetInv, NotDue
  PROVE  NetInv'
<1>1. /\ pc = "events" /\ Handled /\ i \in DOMAIN events
      /\ UNCHANGED <<diag, off, nominal, busFault, lineStatus, genStatus, inService>>
      /\ NetType /\ UNCHANGED <<now, pc, events>> /\ i' = i + 1
  BY PlaceInList DEF NetInv, NotDue, Handled, matrix, devices
<1>2. SamePast
  <2> SUFFICES ASSUME NEW k \in DOMAIN events
        PROVE /\ events[k].kind = "fault" =>
                   /\ Past(events[k].start, k)' <=> Past(events[k].start, k)
                   /\ Past(events[k].end, k)' <=> Past(events[k].end, k)
              /\ events[k].kind # "fault" =>
                   (Past(events[k].time, k)' <=> Past(events[k].time, k))
    BY DEF SamePast
  <2>1. k = i => /\ events[k].kind = "fault" => events[k].start # 2 * now /\ events[k].end # 2 * now
                 /\ events[k].kind # "fault" => events[k].time # 2 * now
    BY <1>1 DEF NotDue, Due
  <2> QED
    BY <1>1, <2>1, PastStep, EventAt
<1>3. NetType'
  BY <1>1, HandledKeeps DEF NetType
<1>4. SaysInv'
  BY <1>1, <1>2, SaysSame DEF NetInv, SaysInv
<1>5. LineInv'
  BY <1>1, HandledKeeps DEF NetInv, LineInv, LineIn, Num
<1>6. PlainInv'
  BY <1>1, HandledKeeps DEF NetInv, PlainInv, Num, InElement, LineIn, RestIn
<1>7. NominalInv'
  BY <1>1, HandledKeeps DEF NetInv, NominalInv, Num
<1>8. RelayBusInv'
  BY <1>1 DEF NetInv, RelayBusInv
<1> QED
  BY <1>1, <1>3, <1>4, <1>5, <1>6, <1>7, <1>8, HandledKeeps DEF NetInv

(* The switching of a circuit. *)
LEMMA LineSwitchKeeps ==
  ASSUME InputAssumed, NetInv, LineSwitch
  PROVE  NetInv'
<1>0. PICK c, on, n : /\ c = events[i].line /\ on = events[i].status
                      /\ n = IF ~Switched(c, on) THEN 0 ELSE IF on THEN 1 ELSE -1
  OBVIOUS
<1>1. /\ pc = "events" /\ Handled /\ i \in DOMAIN events /\ events[i].kind = "line"
      /\ events[i].time = 2 * now
      /\ diag' = [b \in Bus |-> [p \in Part |->
                    diag[b][p] + IF AtBus(c, b) /\ p \in Admittance(c) THEN n ELSE 0]]
      /\ off' = [p \in DOMAIN off |-> off[p] + IF p \in Admittance(c) THEN n ELSE 0]
      /\ lineStatus' = [lineStatus EXCEPT ![c] = on]
      /\ UNCHANGED <<nominal, busFault, genStatus, inService>>
      /\ NetType /\ UNCHANGED <<now, pc, events>> /\ i' = i + 1
  BY <1>0, PlaceInList DEF NetInv, LineSwitch, Event, Due, Handled
<1>2. /\ c \in Circuit /\ on \in BOOLEAN /\ c \notin RelayLines
      /\ \A b \in RelayBuses : ~AtBus(c, b)
  BY <1>0, <1>1, EventAt DEF Proper
<1>3. n = Num(on) - Num(lineStatus[c]) /\ n \in Int
  <2>1. lineStatus[c] \in BOOLEAN
    BY <1>1, <1>2 DEF NetType
  <2> QED
    BY <1>0, <1>2, <2>1 DEF Num, Switched
<1>4. ~Taken(c) /\ \A x : Taken(x)' <=> Taken(x)
  BY <1>1, <1>2, HandledKeeps DEF Taken, RelayLines
<1>5. \A x \in Circuit : LineIn(x)' <=> IF x = c THEN on ELSE LineIn(x)
  BY <1>1, <1>2, <1>4 DEF LineIn, NetType
<1>6. /\ \A b \in Bus : diag[b] \in [Part -> Int]
      /\ DOMAIN off = Circuit \cup Rest /\ \A p \in Circuit \cup Rest : off[p] \in Int
  BY <1>1 DEF NetType
<1>7. /\ diag' \in [Bus -> [Part -> Int]]
      /\ \A b \in Bus : \A p \in Part :
           diag'[b][p] = IF p \in Admittance(c) /\ AtBus(c, b) THEN diag[b][p] + n
                         ELSE diag[b][p]
      /\ \A b \in Bus : ~AtBus(c, b) => diag'[b] = diag[b]
  <2>1. ASSUME NEW b \in Bus
        PROVE  /\ diag'[b] \in [Part -> Int]
               /\ \A p \in Part :
                    diag'[b][p] = IF p \in Admittance(c) /\ AtBus(c, b) THEN diag[b][p] + n
                                  ELSE diag[b][p]
               /\ ~AtBus(c, b) => diag'[b] = diag[b]
    <3>1. \A p \in Part : diag[b][p] \in Int /\ diag[b][p] + 0 = diag[b][p]
      BY <1>6
    <3>2. diag'[b] = [p \in Part |->
                        diag[b][p] + IF AtBus(c, b) /\ p \in Admittance(c) THEN n ELSE 0]
      BY <1>1
    <3>3. \A p \in Part :
            /\ diag'[b][p] = IF p \in Admittance(c) /\ AtBus(c, b) THEN diag[b][p] + n
                             ELSE diag[b][p]
            /\ diag'[b][p] \in Int
      BY <1>3, <3>1, <3>2
    <3>4. diag'[b] \in [Part -> Int]
      BY <3>2, <3>3
    <3>5. ~AtBus(c, b) => diag'[b] = diag[b]
      BY <1>6, <3>3, <3>4
    <3> QED
      BY <3>3, <3>4, <3>5
  <2> QED
    BY <1>1, <2>1
<1>8. NetType'
  <2>1. \A p \in Circuit \cup Rest :
          off[p] + (IF p \in Admittance(c) THEN n ELSE 0) \in Int
    BY <1>3, <1>6
  <2>2. off' \in [Circuit \cup Rest -> Int]
    BY <1>1, <1>6, <2>1
  <2>3. lineStatus' \in [Circuit -> BOOLEAN]
    BY <1>1, <1>2 DEF NetType
  <2> QED
    BY <1>1, <1>7, <2>2, <2>3, HandledKeeps DEF NetType
<1>9. SaysInv'
  <2>1. ASSUME NEW x \in Circuit PROVE lineStatus'[x] <=> Says("line", "line", x)'
    <3>1. CASE x = c
      <4>1. Says("line", "line", c)' <=> on
        BY <1>0, <1>1, SaysStep
      <4> QED
        BY <1>1, <1>2, <3>1, <4>1 DEF NetType
    <3>2. CASE x # c
      <4>1. Says("line", "line", x)' <=> Says("line", "line", x)
        BY <1>0, <1>1, <3>2, SaysStep
      <4>2. lineStatus'[x] = lineStatus[x]
        BY <1>1, <3>2 DEF NetType
      <4> QED
        BY <1>1, <4>1, <4>2 DEF NetInv, SaysInv
    <3> QED
      BY <3>1, <3>2
  <2> QED
    BY <1>1, <2>1, SaysOfOthers DEF NetInv, SaysInv
<1>10. Num(LineIn(c)) = Num(lineStatus[c])
  BY <1>4 DEF LineIn, Num
<1>11. \A x \in Circuit : lineStatus'[x] = IF x = c THEN on ELSE lineStatus[x]
  BY <1>1, <1>2 DEF NetType
<1>12. Num(on) \in Int /\ Num(lineStatus[c]) \in Int /\ NetworkInput
  BY DEF Num, InputAssumed
<1>13. LineInv'
  <2> SUFFICES ASSUME NEW x \in Circuit
               PROVE  off'[x] = Num(LineIn(x))' /\ off'[RestOf[x]] = Num(lineStatus[x])'
    BY DEF LineInv
  <2>1. /\ off[x] = Num(LineIn(x)) /\ off[RestOf[x]] = Num(lineStatus[x])
        /\ x \in Circuit \cup Rest /\ RestOf[x] \in Circuit \cup Rest
        /\ off[x] \in Int /\ off[RestOf[x]] \in Int
    BY <1>6, <1>12, PartsApart DEF NetInv, LineInv
  <2>2. /\ x \in Admittance(c) <=> x = c
        /\ RestOf[x] \in Admittance(c) <=> x = c
    BY <1>2, <1>12, PartsApart, TwoParts
  <2>3. /\ off'[x] = off[x] + (IF x = c THEN n ELSE 0)
        /\ off'[RestOf[x]] = off[RestOf[x]] + (IF x = c THEN n ELSE 0)
    BY <1>1, <1>6, <2>1, <2>2
  <2>4. off'[x] = Num(LineIn(x))'
    BY <1>3, <1>5, <1>10, <1>12, <2>1, <2>3 DEF Num
  <2>5. off'[RestOf[x]] = Num(lineStatus[x])'
    BY <1>3, <1>11, <1>12, <2>1, <2>3 DEF Num
  <2> QED
    BY <2>4, <2>5
<1>14. PlainInv'
  <2> SUFFICES ASSUME NEW b \in Bus \ RelayBuses, NEW p \in Part
               PROVE  diag'[b][p] = Num(InElement(p, b))'
    BY DEF PlainInv
  <2>1. diag[b][p] = Num(InElement(p, b)) /\ diag[b][p] \in Int
    BY <1>6 DEF NetInv, PlainInv
  <2>2. CASE p = c /\ AtBus(c, b)
    <3>1. p \notin Gen /\ p # Fault /\ p \notin Rest /\ p \in Admittance(c)
      BY <1>2, <1>12, <2>2, PartsApart, TwoParts
    <3>2. InElement(p, b) <=> LineIn(c)
      BY <1>2, <1>12, <2>2, <3>1, NoRest DEF InElement
    <3>3. InElement(p, b)' <=> on
      <4>1. ~RestIn(p, b)'
        BY <1>12, <3>1, PartsApart DEF RestIn
      <4> QED
        BY <1>2, <1>5, <2>2, <3>1, <4>1 DEF InElement
    <3>4. diag'[b][p] = diag[b][p] + n
      BY <1>7, <2>2, <3>1
    <3> QED
      BY <1>3, <1>10, <2>1, <3>2, <3>3, <3>4 DEF Num
  <2>3. CASE p = RestOf[c] /\ AtBus(c, b)
    <3>1. p \notin Gen /\ p # Fault /\ p \notin Circuit /\ p \in Admittance(c)
      BY <1>2, <1>12, <2>3, PartsApart, TwoParts
    <3>2. InElement(p, b) <=> lineStatus[c]
      BY <1>2, <1>12, <2>3, <3>1, RestInLaw DEF InElement
    <3>3. InElement(p, b)' <=> on
      <4>1. RestIn(p, b)' <=> on
        BY <1>2, <1>11, <1>12, <2>3, PartsApart DEF RestIn
      <4> QED
        BY <3>1, <4>1 DEF InElement
    <3>4. diag'[b][p] = diag[b][p] + n
      BY <1>7, <2>3, <3>1
    <3> QED
      BY <1>3, <1>12, <2>1, <3>2, <3>3, <3>4 DEF Num
  <2>4. CASE ~(p \in {c, RestOf[c]} /\ AtBus(c, b))
    <3>1. RestIn(p, b)' <=> RestIn(p, b)
      BY <1>11, <2>4 DEF RestIn
    <3>2. InElement(p, b)' <=> InElement(p, b)
      BY <1>1, <1>5, <2>4, <3>1 DEF InElement
    <3>3. diag'[b][p] = diag[b][p]
      BY <1>2, <1>7, <1>12, <2>4, TwoParts
    <3> QED
      BY <2>1, <3>2, <3>3 DEF Num
  <2> QED
    BY <2>2, <2>3, <2>4
<1>15. NominalInv'
  BY <1>1, HandledKeeps DEF NetInv, NominalInv, Num
<1>16. RelayBusInv'
  BY <1>1, <1>2, <1>7 DEF NetInv, RelayBusInv, RelayBuses
<1> QED
  BY <1>1, <1>8, <1>9, <1>13, <1>14, <1>15, <1>16, HandledKeeps DEF NetInv

(* The switching of a generator. *)
LEMMA GenSwitchKeeps ==
  ASSUME InputAssumed, NetInv, GenSwitch
  PROVE  NetInv'
<1>0. PICK g, on, n : /\ g = events[i].gen /\ on = events[i].status
                      /\ n = IF inService[g] = on THEN 0 ELSE IF on THEN 1 ELSE -1
  OBVIOUS
<1>1. /\ pc = "events" /\ Handled /\ i \in DOMAIN events /\ events[i].kind = "gen"
      /\ events[i].time = 2 * now
      /\ diag' = [diag EXCEPT ![GenBus[g]][g] = @ + n]
      /\ inService' = [inService EXCEPT ![g] = on]
      /\ UNCHANGED <<off, nominal, busFault, lineStatus>>
      /\ NetType /\ UNCHANGED <<now, pc, events>> /\ i' = i + 1
  BY <1>0, PlaceInList DEF NetInv, GenSwitch, Event, Due, Handled
<1>2. /\ g \in Gen /\ on \in BOOLEAN /\ GenBus[g] \in Bus \ RelayBuses
  BY <1>0, <1>1, EventAt DEF Proper, InputAssumed, NetworkInput
<1>3. n = Num(on) - Num(inService[g]) /\ n \in Int /\ g \in Part
  <2>1. inService[g] \in BOOLEAN
    BY <1>1, <1>2 DEF NetType
  <2> QED
    BY <1>0, <1>2, <2>1 DEF Num, Part
<1>4. \A x \in Circuit : LineIn(x)' <=> LineIn(x)
  BY <1>1, HandledKeeps DEF LineIn
<1>5. \A x \in Gen : inService'[x] = IF x = g THEN on ELSE inService[x]
  BY <1>1, <1>2 DEF NetType
<1>6. \A b \in Bus : diag[b] \in [Part -> Int]
  BY <1>1 DEF NetType
<1>7. /\ diag' \in [Bus -> [Part -> Int]]
      /\ \A b \in Bus : \A p \in Part :
           diag'[b][p] = IF p = g /\ GenBus[g] = b THEN diag[b][p] + n ELSE diag[b][p]
      /\ \A b \in Bus : b # GenBus[g] => diag'[b] = diag[b]
  <2>1. diag' = [diag EXCEPT ![GenBus[g]] = [diag[GenBus[g]] EXCEPT ![g] = @ + n]]
    BY <1>1
  <2>2. [diag[GenBus[g]] EXCEPT ![g] = @ + n] \in [Part -> Int]
    BY <1>2, <1>3, <1>6
  <2>3. diag \in [Bus -> [Part -> Int]]
    BY <1>1 DEF NetType
  <2> QED
    BY <1>2, <1>3, <1>6, <2>1, <2>2, <2>3
<1>8. NetType'
  <2>1. inService' \in [Gen -> BOOLEAN]
    BY <1>1, <1>2 DEF NetType
  <2> QED
    BY <1>1, <1>7, <2>1, HandledKeeps DEF NetType
<1>9. SaysInv'
  <2>1. ASSUME NEW x \in Gen, GenBus[x] \notin RelayBuses
        PROVE  inService'[x] <=> Says("gen", "gen", x)'
    <3>1. CASE x = g
      <4>1. Says("gen", "gen", g)' <=> on
        BY <1>0, <1>1, SaysStep
      <4> QED
        BY <1>2, <1>5, <3>1, <4>1
    <3>2. CASE x # g
      <4>1. Says("gen", "gen", x)' <=> Says("gen", "gen", x)
        BY <1>0, <1>1, <3>2, SaysStep
      <4> QED
        BY <1>1, <1>5, <2>1, <3>2, <4>1 DEF NetInv, SaysInv
    <3> QED
      BY <3>1, <3>2
  <2> QED
    BY <1>1, <2>1, SaysOfOthers DEF NetInv, SaysInv
<1>10. LineInv'
  BY <1>1, <1>4 DEF NetInv, LineInv, Num
<1>11. PlainInv'
  <2> SUFFICES ASSUME NEW b \in Bus \ RelayBuses, NEW p \in Part
               PROVE  diag'[b][p] = Num(InElement(p, b))'
    BY DEF PlainInv
  <2>1. diag[b][p] = Num(InElement(p, b)) /\ diag[b][p] \in Int
    BY <1>6 DEF NetInv, PlainInv
  <2>2. CASE p = g /\ GenBus[g] = b
    <3>1. p \notin Circuit /\ p # Fault /\ ~RestIn(p, b) /\ ~RestIn(p, b)'
      BY <1>2, <2>2, PartsApart DEF InputAssumed, RestIn
    <3>2. InElement(p, b) <=> inService[g]
      BY <1>2, <2>2, <3>1 DEF InElement
    <3>3. InElement(p, b)' <=> on
      BY <1>2, <1>5, <2>2, <3>1 DEF InElement
    <3>4. diag'[b][p] = diag[b][p] + n
      BY <1>7, <2>2
    <3> QED
      BY <1>3, <2>1, <3>2, <3>3, <3>4 DEF Num
  <2>3. CASE ~(p = g /\ GenBus[g] = b)
    <3>1. InElement(p, b)' <=> InElement(p, b)
      BY <1>1, <1>4, <1>5, <2>3 DEF InElement, RestIn
    <3> QED
      BY <1>7, <2>1, <2>3, <3>1 DEF Num
  <2> QED
    BY <2>2, <2>3
<1>12. NominalInv'
  BY <1>1, HandledKeeps DEF NetInv, NominalInv, Num
<1>13. RelayBusInv'
  BY <1>1, <1>2, <1>7 DEF NetInv, RelayBusInv, RelayBuses
<1> QED
  BY <1>1, <1>8, <1>9, <1>10, <1>11, <1>12, <1>13, HandledKeeps DEF NetInv

-----------------------------------------------------------------------------
(* Once the events of a step are handled nothing changes what they say. *)
LEMMA AfterEvents ==
  ASSUME InputAssumed, NetInv, pc # "events", pc' # "events", UNCHANGED <<now, events>>
  PROVE  SamePast
  BY DEF SamePast, Past

(* After the last event of a step everything due has come to pass. *)
LEMMA EventsHandled ==
  ASSUME InputAssumed, NetInv, pc = "events", pc' # "events", i > Len(events),
         UNCHANGED <<now, events>>
  PROVE  SamePast
<1>1. \A k \in DOMAIN events : k < i
  BY PlaceInList DEF NetInv
<1> QED
  BY <1>1 DEF SamePast, Past

(* Between two steps nothing comes to pass: all events are at steps. *)
LEMMA NextStep ==
  ASSUME InputAssumed, NetInv, pc \notin {"events", "done"}, pc' = "events", i' = 1,
         now' = now + 1, events' = events
  PROVE  SamePast
<1>1. ASSUME NEW t \in Nat, AtStep(t), NEW k \in Nat \ {0}
      PROVE  Past(t, k)' <=> Past(t, k)
  <2>1. PICK n \in 0 .. t : t = 2 * n
    BY <1>1 DEF AtStep
  <2>2. now \in Nat /\ n \in Nat
    BY DEF NetInv, NetType
  <2>3. Past(t, k)' <=> t < 2 * (now + 1)
    BY <1>1, <2>1, <2>2 DEF Past
  <2>4. Past(t, k) <=> t < 2 * now \/ t = 2 * now
    BY DEF Past
  <2> QED
    BY <2>1, <2>2, <2>3, <2>4
<1> QED
  BY <1>1, EventAt DEF SamePast, Proper, NetInv

(* What an evaluation does to a relay's status. *)
LEMMA StatusAfter ==
  ASSUME IInv, NEW rs \in SUBSET Relay, NEW x \in Sights(rs), relay' = AfterUpdate(rs, x)
  PROVE  \A r \in Relay :
           /\ Operated(r)' <=> Operated(r) \/ (r \in rs /\ Operates(r, x[r]))
           /\ Operates(r, x[r]) => ~Operated(r)
<1> SUFFICES ASSUME NEW r \in Relay
             PROVE  /\ Operated(r)' <=> Operated(r) \/ (r \in rs /\ Operates(r, x[r]))
                    /\ Operates(r, x[r]) => ~Operated(r)
  OBVIOUS
<1>1. r \in rs => /\ Evaluated(r, x[r]) \in RelayState(r)
                  /\ Evaluated(r, x[r]).op = relay[r].op
  <2>1. r \in rs => x[r] \in SUBSET Timer
    BY DEF Sights
  <2>2. PICK h : h = Append(past[r], x[r])
    OBVIOUS
  <2> QED
    BY <2>1, <2>2, OneEvaluation DEF IInv
<1>2. relay'[r] = IF r \in rs
                  THEN [Evaluated(r, x[r]) EXCEPT !.op = @ /\ ~Operates(r, x[r])]
                  ELSE relay[r]
  BY DEF AfterUpdate
<1>3. Operates(r, x[r]) \in BOOLEAN
  BY DEF Operates
<1>4. r \in rs => relay'[r].op = (relay[r].op /\ ~Operates(r, x[r]))
  BY <1>1, <1>2, <1>3 DEF RelayState
<1>5. r \notin rs => relay'[r].op = relay[r].op
  BY <1>2
<1>6. Operates(r, x[r]) => ~Operated(r)
  BY DEF Operates, Operated
<1> QED
  BY <1>4, <1>5, <1>6 DEF Operated

-----------------------------------------------------------------------------
(* Solving the network. *)
LEMMA SolveKeeps ==
  ASSUME InputAssumed, NetInv, SolveNetwork
  PROVE  NetInv'
<1>1. /\ pc = "events" /\ i > Len(events) /\ pc' = "buses" /\ i' = 1 /\ anyTrip' = FALSE
      /\ UNCHANGED <<now, events, diag, off, nominal, busFault, lineStatus, genStatus,
                     inService, relay, busTrip, newTrip, trippedBy>>
      /\ NetType
  BY DEF SolveNetwork, matrix, devices, NetInv
<1>2. NetType'
  <2>1. anyTrip' \in BOOLEAN
    BY <1>1, Zenon
  <2> QED
    BY <1>1, <2>1 DEF NetType
<1>3. SaysInv'
  BY <1>1, EventsHandled, SaysSame DEF NetInv, SaysInv
<1>4. \A c : LineIn(c)' <=> LineIn(c)
  BY <1>1 DEF LineIn, Taken, Pending, Operated
<1>5. LineInv' /\ PlainInv'
  BY <1>1, <1>4 DEF NetInv, LineInv, PlainInv, Num, InElement, RestIn
<1>6. NominalInv'
  BY <1>1 DEF NetInv, NominalInv, Num, InNominal, Operated
<1>7. RelayBusInv' /\ FlagInv' /\ PendingInv'
  BY <1>1 DEF NetInv, RelayBusInv, FlagInv, PendingInv, Pending
<1> QED
  BY <1>2, <1>3, <1>5, <1>6, <1>7 DEF NetInv

(* Passing over a relay. *)
LEMMA SkipKeeps ==
  ASSUME InputAssumed, NetInv, SkipRelay
  PROVE  NetInv'
<1>1. /\ pc \in {"buses", "branches"} /\ i' = i + 1
      /\ UNCHANGED <<now, pc, events, diag, off, nominal, busFault, lineStatus, genStatus,
                     inService, relay, busTrip, newTrip, trippedBy, anyTrip>>
      /\ NetType
  BY DEF SkipRelay, matrix, devices, trips, NetInv
<1>2. NetType' /\ i' # 1
  BY <1>1 DEF NetType
<1>3. SaysInv'
  BY <1>1, AfterEvents, SaysSame DEF NetInv, SaysInv
<1>4. \A c : LineIn(c)' <=> LineIn(c)
  BY <1>1 DEF LineIn, Taken, Pending, Operated
<1>5. LineInv' /\ PlainInv'
  BY <1>1, <1>4 DEF NetInv, LineInv, PlainInv, Num, InElement, RestIn
<1>6. NominalInv'
  BY <1>1 DEF NetInv, NominalInv, Num, InNominal, Operated
<1>7. RelayBusInv' /\ FlagInv' /\ PendingInv'
  BY <1>1, <1>2 DEF NetInv, RelayBusInv, FlagInv, PendingInv, Pending, Operated
<1> QED
  BY <1>2, <1>3, <1>5, <1>6, <1>7 DEF NetInv

(* The relays of a bus are evaluated. *)
LEMMA BusRelayKeeps ==
  ASSUME InputAssumed, IInv, NetInv, UpdateBusRelay
  PROVE  NetInv'
<1>0. PICK x, b, act, lost :
        /\ x \in Sights(Watched(BusOrder[i]))
        /\ b = BusOrder[i] /\ act = {r \in Watched(b) : Operates(r, x[r])}
        /\ lost = {BusRelay[r].part : r \in act}
        /\ relay' = AfterUpdate(Watched(b), x)
        /\ nominal' = [nominal EXCEPT ![b] = [p \in Part |-> @[p] - IF p \in lost THEN 1 ELSE 0]]
        /\ inService' = [g \in Gen |-> inService[g] /\ g \notin lost]
        /\ busTrip' = [busTrip EXCEPT ![b] = act # {}]
        /\ anyTrip' = (act # {})
  BY DEF UpdateBusRelay
<1>1. /\ pc = "buses" /\ i <= Len(BusOrder) /\ ~anyTrip /\ i' = i + 1
      /\ relay' = AfterUpdate(Watched(b), x) /\ x \in Sights(Watched(b))
      /\ nominal' = [nominal EXCEPT ![b] = [p \in Part |-> @[p] - IF p \in lost THEN 1 ELSE 0]]
      /\ inService' = [g \in Gen |-> inService[g] /\ g \notin lost]
      /\ busTrip' = [busTrip EXCEPT ![b] = act # {}]
      /\ anyTrip' = (act # {})
      /\ UNCHANGED <<now, pc, events, diag, off, busFault, lineStatus, genStatus, newTrip,
                     trippedBy>>
      /\ NetType
  BY <1>0 DEF UpdateBusRelay, NetInv
<1>2. b \in Bus
  <2>1. BusOrder \in Seq(Bus) /\ i \in 1 .. Len(BusOrder)
    BY <1>1 DEF InputAssumed, NetworkInput, NetType
  <2> QED
    BY <1>0, <2>1
<1>3. /\ Watched(b) \subseteq RelaysOf(b) /\ RelaysOf(b) \subseteq DOMAIN BusRelay
      /\ DOMAIN BusRelay \subseteq Relay /\ DOMAIN LineRelay \subseteq Relay
      /\ act \subseteq Watched(b) /\ \A r \in RelaysOf(b) : BusRelay[r].bus = b
  BY <1>0 DEF Watched, RelaysOf, Relay
<1>4. \A r \in Relay : /\ Operated(r)' <=> Operated(r) \/ r \in act
                       /\ r \in act => ~Operated(r)
  <2>1. Watched(b) \in SUBSET Relay
    BY <1>3
  <2>2. \A r \in Relay :
          /\ Operated(r)' <=> Operated(r) \/ (r \in Watched(b) /\ Operates(r, x[r]))
          /\ Operates(r, x[r]) => ~Operated(r)
    BY <1>1, <2>1, StatusAfter
  <2> QED
    BY <1>0, <2>2
<1>5. \A p \in lost : BuiltDiag(b)[p] = 1 /\ b \in RelayBuses
  BY <1>0, <1>3, PartOfRelay DEF InputAssumed
<1>6. \A g \in Gen : GenBus[g] \notin RelayBuses => g \notin lost
  BY <1>0, <1>3, PartOfRelay DEF InputAssumed, RelayInput
<1>7. act # {} => b \in RelayBuses
  BY <1>0, <1>5
<1>8. \A y \in Bus : nominal[y] \in [Part -> Int]
  BY <1>1 DEF NetType
<1>9. /\ nominal' \in [Bus -> [Part -> Int]]
      /\ \A y \in Bus : y # b => nominal'[y] = nominal[y]
      /\ \A p \in Part : nominal'[b][p] = nominal[b][p] - (IF p \in lost THEN 1 ELSE 0)
  <2>1. nominal' = [nominal EXCEPT ![b] =
                      [p \in Part |-> nominal[b][p] - IF p \in lost THEN 1 ELSE 0]]
    BY <1>1
  <2>2. [p \in Part |-> nominal[b][p] - IF p \in lost THEN 1 ELSE 0] \in [Part -> Int]
    BY <1>2, <1>8
  <2>3. nominal \in [Bus -> [Part -> Int]]
    BY <1>1 DEF NetType
  <2> QED
    BY <1>2, <2>1, <2>2, <2>3
<1>10. NetType'
  <2>1. inService' \in [Gen -> BOOLEAN]
    BY <1>1
  <2>2. busTrip' \in [Bus -> BOOLEAN] /\ anyTrip' \in BOOLEAN
    <3>1. (act # {}) \in BOOLEAN
      OBVIOUS
    <3> QED
      BY <1>1, <1>2, <3>1 DEF NetType
  <2> QED
    BY <1>1, <1>9, <2>1, <2>2 DEF NetType
<1>11. SaysInv'
  <2>1. \A g \in Gen : GenBus[g] \notin RelayBuses => (inService'[g] <=> inService[g])
    BY <1>1, <1>6
  <2>2. /\ \A c : Says("line", "line", c)' <=> Says("line", "line", c)
        /\ \A g : Says("gen", "gen", g)' <=> Says("gen", "gen", g)
        /\ \A y : FaultActive(y)' <=> FaultActive(y)
    BY <1>1, AfterEvents, SaysSame
  <2> QED
    BY <1>1, <2>1, <2>2 DEF NetInv, SaysInv
<1>12. \A c : LineIn(c)' <=> LineIn(c)
  <2>1. \A r \in DOMAIN LineRelay : Operated(r)' <=> Operated(r)
    BY <1>3, <1>4 DEF InputAssumed, RelayInput
  <2> QED
    BY <1>1, <2>1 DEF LineIn, Taken, Pending
<1>13. LineInv'
  BY <1>1, <1>12 DEF NetInv, LineInv, Num
<1>14. PlainInv'
  <2> SUFFICES ASSUME NEW y \in Bus \ RelayBuses, NEW p \in Part
               PROVE  diag'[y][p] = Num(InElement(p, y))'
    BY DEF PlainInv
  <2>1. InElement(p, y)' <=> InElement(p, y)
    BY <1>1, <1>6, <1>12 DEF InElement, RestIn
  <2> QED
    BY <1>1, <2>1 DEF NetInv, PlainInv, Num
<1>15. NominalInv'
  <2> SUFFICES ASSUME NEW y \in RelayBuses, NEW p \in Part
               PROVE  nominal'[y][p] = Num(InNominal(p, y))'
    BY DEF NominalInv
  <2>1. y \in Bus /\ nominal[y][p] = Num(InNominal(p, y)) /\ nominal[y][p] \in Int
    BY <1>8 DEF NetInv, NominalInv, RelayBuses
  <2>2. CASE y # b
    <3>1. \A r \in RelaysOf(y) : Operated(r)' <=> Operated(r)
      BY <1>3, <1>4, <2>2 DEF RelaysOf
    <3> QED
      BY <1>9, <2>1, <2>2, <3>1 DEF InNominal, Num
  <2>3. CASE y = b /\ p \in lost
    <3>1. PICK r \in act : BusRelay[r].part = p
      BY <1>0, <2>3
    <3>2. \A s \in RelaysOf(b) : BusRelay[s].part = p => s = r
      BY <1>3, <3>1 DEF InputAssumed, RelayInput
    <3>3. r \in RelaysOf(b) /\ ~Operated(r) /\ Operated(r)'
      BY <1>3, <1>4, <3>1
    <3>4. InNominal(p, y) /\ ~InNominal(p, y)'
      BY <1>5, <2>3, <3>1, <3>2, <3>3 DEF InNominal
    <3> QED
      BY <1>9, <2>1, <2>3, <3>4 DEF Num
  <2>4. CASE y = b /\ p \notin lost
    <3>1. \A r \in RelaysOf(b) : BusRelay[r].part = p => (Operated(r)' <=> Operated(r))
      BY <1>0, <1>3, <1>4, <2>4
    <3> QED
      BY <1>9, <2>1, <2>4, <3>1 DEF InNominal, Num
  <2> QED
    BY <2>2, <2>3, <2>4
<1>16. RelayBusInv'
  <2> SUFFICES ASSUME NEW y \in RelayBuses
               PROVE  diag'[y] = nominal'[y] \/ (anyTrip' /\ busTrip'[y])
    BY <1>1 DEF RelayBusInv
  <2>1. y \in Bus /\ diag[y] = nominal[y]
    BY <1>1 DEF NetInv, RelayBusInv, RelayBuses
  <2>2. CASE y # b
    BY <1>1, <1>9, <2>1, <2>2
  <2>3. CASE y = b /\ act # {}
    BY <1>1, <1>2, <2>3 DEF NetType
  <2>4. CASE y = b /\ act = {}
    <3>1. lost = {}
      BY <1>0, <2>4
    <3>2. nominal'[b] \in [Part -> Int] /\ nominal[b] \in [Part -> Int]
      BY <1>2, <1>8, <1>9
    <3>3. \A p \in Part : nominal'[b][p] = nominal[b][p]
      BY <1>2, <1>8, <1>9, <3>1
    <3>4. nominal'[b] = nominal[b]
      BY <3>2, <3>3
    <3> QED
      BY <1>1, <2>1, <2>4, <3>4
  <2> QED
    BY <2>2, <2>3, <2>4
<1>17. FlagInv'
  <2>1. \A y \in Bus : busTrip'[y] => y \in RelayBuses
    BY <1>1, <1>2, <1>7 DEF NetInv, FlagInv, NetType
  <2>2. i' # 1
    BY <1>1 DEF NetType
  <2> QED
    BY <1>1, <2>1, <2>2 DEF NetInv, FlagInv
<1>18. PendingInv'
  BY <1>1 DEF PendingInv, Pending
<1> QED
  BY <1>10, <1>11, <1>13, <1>14, <1>15, <1>16, <1>17, <1>18 DEF NetInv

(* The elements of the buses whose relays have operated are written anew.  *)
LEMMA OverwriteKeeps ==
  ASSUME InputAssumed, NetInv, OverwriteBuses
  PROVE  NetInv'
<1>1. /\ pc = "buses" /\ pc' = "branches" /\ i' = 1 /\ anyTrip' = FALSE
      /\ diag' = IF anyTrip THEN [b \in Bus |-> IF busTrip[b] THEN nominal[b] ELSE diag[b]]
                            ELSE diag
      /\ UNCHANGED <<now, events, off, nominal, busFault, lineStatus, genStatus,
                     inService, relay, busTrip, newTrip, trippedBy>>
      /\ NetType
  BY DEF OverwriteBuses, devices, NetInv
<1>2. NetType'
  <2>1. anyTrip' \in BOOLEAN
    BY <1>1, Zenon
  <2>2. diag' \in [Bus -> [Part -> Int]]
    BY <1>1 DEF NetType
  <2> QED
    BY <1>1, <2>1, <2>2 DEF NetType
<1>3. SaysInv'
  BY <1>1, AfterEvents, SaysSame DEF NetInv, SaysInv
<1>4. \A c : LineIn(c)' <=> LineIn(c)
  BY <1>1 DEF LineIn, Taken, Pending, Operated
<1>5. LineInv'
  BY <1>1, <1>4 DEF NetInv, LineInv, Num
<1>6. PlainInv'
  <2>1. \A b \in Bus \ RelayBuses : diag'[b] = diag[b]
    BY <1>1 DEF NetInv, FlagInv
  <2> QED
    BY <1>1, <1>4, <2>1 DEF NetInv, PlainInv, Num, InElement, RestIn
<1>7. NominalInv'
  BY <1>1 DEF NetInv, NominalInv, Num, InNominal, Operated
<1>8. RelayBusInv'
  <2>1. \A b \in RelayBuses : diag'[b] = nominal[b]
    BY <1>1 DEF NetInv, RelayBusInv, RelayBuses
  <2> QED
    BY <1>1, <2>1 DEF RelayBusInv
<1>9. FlagInv' /\ PendingInv'
  BY <1>1 DEF NetInv, FlagInv, PendingInv, Pending
<1> QED
  BY <1>2, <1>3, <1>5, <1>6, <1>7, <1>8, <1>9 DEF NetInv

-----------------------------------------------------------------------------
(* The relays of a branch are evaluated. *)
LEMMA BranchRelayKeeps ==
  ASSUME InputAssumed, IInv, NetInv, UpdateBranchRelay
  PROVE  NetInv'
<1>0. PICK sight, br, act :
        /\ sight \in Sights(LineRelays(BranchOrder[i]))
        /\ br = BranchOrder[i] /\ act = {r \in LineRelays(br) : Operates(r, sight[r])}
        /\ relay' = AfterUpdate(LineRelays(br), sight)
        /\ newTrip' = [newTrip EXCEPT ![br] = {LineRelay[r] : r \in act}]
        /\ trippedBy' = [b \in Bus |-> IF b \notin Range(Ends[br]) THEN trippedBy[b]
                                       ELSE IF act = {} THEN None ELSE br]
        /\ anyTrip' = (act # {})
  BY DEF UpdateBranchRelay
<1>1. /\ pc = "branches" /\ i <= Len(BranchOrder) /\ ~anyTrip /\ i' = i + 1
      /\ relay' = AfterUpdate(LineRelays(br), sight) /\ sight \in Sights(LineRelays(br))
      /\ newTrip' = [newTrip EXCEPT ![br] = {LineRelay[r] : r \in act}]
      /\ trippedBy' = [b \in Bus |-> IF b \notin Range(Ends[br]) THEN trippedBy[b]
                                     ELSE IF act = {} THEN None ELSE br]
      /\ anyTrip' = (act # {})
      /\ UNCHANGED <<now, pc, events, diag, off, nominal, busFault, lineStatus, genStatus,
                     inService, busTrip>>
      /\ NetType
  BY <1>0 DEF UpdateBranchRelay, NetInv, matrix, devices
<1>2. br \in Branch
  <2>1. BranchOrder \in Seq(Branch) /\ i \in 1 .. Len(BranchOrder)
    BY <1>1 DEF InputAssumed, NetworkInput, NetType
  <2> QED
    BY <1>0, <2>1
<1>3. /\ LineRelays(br) \subseteq DOMAIN LineRelay /\ DOMAIN LineRelay \subseteq Relay
      /\ DOMAIN BusRelay \subseteq Relay
      /\ \A r \in act : r \in LineRelays(br) /\ LineRelay[r] \in RelayLines
                        /\ BranchOf[LineRelay[r]] = br
      /\ \A r \in DOMAIN LineRelay : LineRelay[r] \in RelayLines
  BY <1>0 DEF LineRelays, Relay, RelayLines
<1>4. \A r \in Relay : /\ Operated(r)' <=> Operated(r) \/ r \in act
                       /\ r \in act => ~Operated(r)
  <2>1. LineRelays(br) \in SUBSET Relay
    BY <1>3
  <2>2. \A r \in Relay :
          /\ Operated(r)' <=> Operated(r) \/ (r \in LineRelays(br) /\ Operates(r, sight[r]))
          /\ Operates(r, sight[r]) => ~Operated(r)
    BY <1>1, <2>1, StatusAfter
  <2> QED
    BY <1>0, <2>2
<1>5. \A c \in RelayLines : c \in Circuit /\ BranchOf[c] \in Branch
  BY LineOfRelay DEF InputAssumed
<1>6. act # {} => \A x \in Branch : LineRelays(x) # {} => x = br
  <2> SUFFICES ASSUME NEW r \in act, NEW x \in Branch, NEW s \in LineRelays(x) PROVE x = br
    OBVIOUS
  <2>1. s \in DOMAIN LineRelay /\ BranchOf[LineRelay[s]] = x
    BY DEF LineRelays
  <2> QED
    BY <1>3, <2>1 DEF InputAssumed, RelayInput
<1>7. NetType'
  <2>1. newTrip' \in [Branch -> SUBSET Circuit]
    <3>1. {LineRelay[r] : r \in act} \in SUBSET Circuit
      BY <1>3, <1>5
    <3> QED
      BY <1>1, <1>2, <3>1 DEF NetType
  <2>2. trippedBy' \in [Bus -> Branch \cup {None}]
    BY <1>1, <1>2 DEF NetType
  <2>3. anyTrip' \in BOOLEAN
    <3>1. (act # {}) \in BOOLEAN
      OBVIOUS
    <3> QED
      BY <1>1, <3>1
  <2> QED
    BY <1>1, <2>1, <2>2, <2>3 DEF NetType
<1>8. SaysInv'
  BY <1>1, AfterEvents, SaysSame DEF NetInv, SaysInv
<1>9. /\ newTrip'[br] = {LineRelay[r] : r \in act}
      /\ \A x \in Branch : x # br => newTrip'[x] = newTrip[x]
      /\ \A c : c \in newTrip'[br] <=> \E r \in act : LineRelay[r] = c
  <2>1. newTrip'[br] = {LineRelay[r] : r \in act}
    BY <1>1, <1>2 DEF NetType
  <2>2. \A x \in Branch : x # br => newTrip'[x] = newTrip[x]
    BY <1>1, <1>2 DEF NetType
  <2> QED
    BY <2>1, <2>2
<1>10. FlagInv'
  <2>1. \A x \in Branch : \A c \in newTrip'[x] : c \in RelayLines /\ BranchOf[c] = x
    <3>1. \A c \in newTrip'[br] : c \in RelayLines /\ BranchOf[c] = br
      BY <1>3, <1>9
    <3>2. \A x \in Branch : x # br =>
            \A c \in newTrip'[x] : c \in RelayLines /\ BranchOf[c] = x
      BY <1>9 DEF NetInv, FlagInv
    <3> QED
      BY <3>1, <3>2
  <2>2. \A b \in Bus :
          trippedBy'[b] # None => /\ b \in Range(Ends[trippedBy'[b]])
                                  /\ LineRelays(trippedBy'[b]) # {}
    <3>1. act # {} => LineRelays(br) # {}
      BY <1>3
    <3> QED
      BY <1>1, <3>1 DEF NetInv, FlagInv
  <2>3. act # {} => \A x \in Branch : newTrip'[x] # {} =>
          \A b \in Range(Ends[x]) : trippedBy'[b] = x
    <3> SUFFICES ASSUME act # {}, NEW x \in Branch, newTrip'[x] # {}, NEW b \in Range(Ends[x])
                 PROVE  trippedBy'[b] = x
      OBVIOUS
    <3>1. PICK c \in newTrip'[x] : c \in RelayLines /\ BranchOf[c] = x
      BY <2>1
    <3>2. x = br
      BY <1>6, <3>1, LineOfRelay DEF InputAssumed
    <3>3. b \in Bus
      BY <3>1, <1>5, EndsOfBranch DEF InputAssumed
    <3> QED
      BY <1>1, <3>2, <3>3
  <2> QED
    BY <1>1, <2>1, <2>2, <2>3 DEF NetInv, FlagInv
<1>11. PendingInv'
  <2> SUFFICES ASSUME NEW r \in DOMAIN LineRelay, Pending(LineRelay[r])'
               PROVE  Operated(r)'
    BY DEF PendingInv
  <2>1. /\ act # {} /\ LineRelay[r] \in newTrip'[BranchOf[LineRelay[r]]]
        /\ BranchOf[LineRelay[r]] \in Branch
    BY <1>1, <1>3, <1>5 DEF Pending
  <2>2. BranchOf[LineRelay[r]] = br
    BY <1>3, <2>1 DEF InputAssumed, RelayInput
  <2>3. PICK s \in act : LineRelay[s] = LineRelay[r]
    BY <1>9, <2>1, <2>2
  <2>4. s = r
    BY <1>3, <2>3 DEF InputAssumed, RelayInput
  <2> QED
    BY <1>3, <1>4, <2>4
<1>12. \A c \in Circuit : LineIn(c)' <=> LineIn(c)
  <2> SUFFICES ASSUME NEW c \in Circuit PROVE Taken(c)' <=> Taken(c)
    BY <1>1 DEF LineIn
  <2>1. CASE c \notin RelayLines
    BY <2>1 DEF Taken, RelayLines
  <2>2. CASE c \in RelayLines
    <3>1. PICK r \in DOMAIN LineRelay : LineRelay[r] = c
      BY <2>2 DEF RelayLines
    <3>2. \A s \in DOMAIN LineRelay : LineRelay[s] = c <=> s = r
      BY <3>1 DEF InputAssumed, RelayInput
    <3>3. Taken(c) <=> Operated(r)
      BY <1>1, <3>2 DEF Taken, Pending
    <3>4. Taken(c)' <=> Operated(r)' /\ ~Pending(c)'
      BY <3>2 DEF Taken
    <3>5. r \in Relay
      BY <1>3
    <3>6. CASE r \in act
      <4>1. anyTrip' /\ BranchOf[c] = br /\ c \in newTrip'[br]
        BY <1>1, <1>3, <1>9, <3>1, <3>6
      <4>2. Pending(c)'
        BY <1>1, <4>1 DEF Pending
      <4> QED
        BY <1>4, <3>3, <3>4, <3>5, <3>6, <4>2
    <3>7. CASE r \notin act
      <4>1. ~Pending(c)'
        <5> SUFFICES ASSUME Pending(c)' PROVE FALSE
          OBVIOUS
        <5>1. act # {} /\ c \in newTrip'[BranchOf[c]]
          BY <1>1 DEF Pending
        <5>2. BranchOf[c] = br
          BY <1>3, <2>2, <5>1 DEF InputAssumed, RelayInput
        <5>3. PICK s \in act : LineRelay[s] = c
          BY <1>9, <5>1, <5>2
        <5>4. s = r
          BY <1>3, <3>2, <5>3
        <5> QED
          BY <3>7, <5>4
      <4> QED
        BY <1>4, <3>3, <3>4, <3>5, <3>7, <4>1
    <3> QED
      BY <3>6, <3>7
  <2> QED
    BY <2>1, <2>2
<1>13. LineInv'
  BY <1>1, <1>12 DEF NetInv, LineInv, Num
<1>14. PlainInv'
  <2> SUFFICES ASSUME NEW x \in Bus \ RelayBuses, NEW p \in Part
               PROVE  diag'[x][p] = Num(InElement(p, x))'
    BY DEF PlainInv
  <2>1. InElement(p, x)' <=> InElement(p, x)
    BY <1>1, <1>12 DEF InElement, RestIn
  <2> QED
    BY <1>1, <2>1 DEF NetInv, PlainInv, Num
<1>15. NominalInv'
  <2>1. \A r \in DOMAIN BusRelay : Operated(r)' <=> Operated(r)
    BY <1>3, <1>4 DEF InputAssumed, RelayInput
  <2>2. \A p, b : InNominal(p, b)' <=> InNominal(p, b)
    BY <2>1 DEF InNominal, RelaysOf
  <2> QED
    BY <1>1, <2>2 DEF NetInv, NominalInv, Num
<1>16. RelayBusInv'
  BY <1>1 DEF NetInv, RelayBusInv
<1> QED
  BY <1>7, <1>8, <1>10, <1>11, <1>13, <1>14, <1>15, <1>16 DEF NetInv

(* In the step of a trip, a bus is flagged for exactly the circuits there  *)
(* whose branch has them in its list.                                      *)
LEMMA FlaggedExactly ==
  ASSUME InputAssumed, NetInv, pc = "branches", anyTrip, NEW c \in Circuit, NEW b \in Bus
  PROVE  /\ Flagged(c, b) <=> AtBus(c, b) /\ c \in newTrip[BranchOf[c]]
         /\ Flagged(c, b) => b \notin RelayBuses
<1>1. BranchOf[c] \in Branch
  BY DEF InputAssumed, NetworkInput
<1>2. ASSUME Flagged(c, b)
      PROVE  AtBus(c, b) /\ c \in newTrip[BranchOf[c]] /\ b \notin RelayBuses
  <2>1. /\ trippedBy[b] # None /\ trippedBy[b] \in Branch /\ c \in newTrip[trippedBy[b]]
        /\ b \in Range(Ends[trippedBy[b]])
    BY <1>2 DEF Flagged, NetInv, NetType, FlagInv
  <2>2. c \in RelayLines /\ BranchOf[c] = trippedBy[b]
    BY <2>1 DEF NetInv, FlagInv
  <2> QED
    BY <2>1, <2>2, LineOfRelay DEF AtBus, InputAssumed
<1>3. ASSUME AtBus(c, b), c \in newTrip[BranchOf[c]] PROVE Flagged(c, b)
  <2>1. trippedBy[b] = BranchOf[c]
    BY <1>1, <1>3 DEF NetInv, FlagInv, AtBus
  <2>2. BranchOf[c] # None
    BY <1>1 DEF InputAssumed, NetworkInput
  <2> QED
    BY <1>3, <2>1, <2>2 DEF Flagged
<1> QED
  BY <1>2, <1>3

(* The circuits that have tripped are taken off, and the step ends. *)
LEMMA IncrementKeeps ==
  ASSUME InputAssumed, NetInv, IncrementBranches
  PROVE  NetInv'
<1>1. /\ pc = "branches" /\ now' = now + 1 /\ i' = 1 /\ pc' \in {"events", "done"}
      /\ UNCHANGED <<events, nominal, busFault, lineStatus, genStatus, inService,
                     relay, busTrip, newTrip, trippedBy, anyTrip>>
      /\ NetType
  BY DEF IncrementBranches, devices, trips, NetInv
<1>2. IF anyTrip
      THEN /\ diag' = [b \in Bus |-> [p \in Part |->
                         diag[b][p] - IF p \in Circuit /\ Flagged(p, b) THEN 1 ELSE 0]]
           /\ off' = [p \in DOMAIN off |->
                        off[p] - IF p \in Circuit /\ p \in newTrip[BranchOf[p]] THEN 1 ELSE 0]
      ELSE UNCHANGED <<diag, off>>
  BY DEF IncrementBranches
<1>3. /\ \A b \in Bus : diag[b] \in [Part -> Int] /\ \A p \in Part : diag[b][p] \in Int
      /\ DOMAIN off = Circuit \cup Rest /\ \A p \in Circuit \cup Rest : off[p] \in Int
  BY <1>1 DEF NetType
<1>4. NetType'
  <2>1. diag' \in [Bus -> [Part -> Int]] /\ off' \in [Circuit \cup Rest -> Int]
    <3>1. CASE anyTrip
      BY <1>2, <1>3, <3>1
    <3>2. CASE ~anyTrip
      BY <1>1, <1>2, <3>2 DEF NetType
    <3> QED
      BY <3>1, <3>2
  <2> QED
    BY <1>1, <2>1 DEF NetType
<1>5. SaysInv'
  <2> SUFFICES ASSUME pc' = "events" PROVE SaysInv'
    BY <1>1 DEF SaysInv
  <2> QED
    BY <1>1, NextStep, SaysSame DEF NetInv, SaysInv
<1>6. \A c \in Circuit : LineIn(c)' <=> LineIn(c) /\ ~Pending(c)
  <2> SUFFICES ASSUME NEW c \in Circuit
               PROVE  Taken(c)' <=> Taken(c) \/ Pending(c)
    BY <1>1 DEF LineIn
  <2>1. Taken(c)' <=> \E r \in DOMAIN LineRelay : LineRelay[r] = c /\ Operated(r)
    BY <1>1 DEF Taken, Pending, Operated
  <2>2. Pending(c) => \E r \in DOMAIN LineRelay : LineRelay[r] = c /\ Operated(r)
    <3>1. Pending(c) => c \in RelayLines
      <4>1. BranchOf[c] \in Branch
        BY DEF InputAssumed, NetworkInput
      <4> QED
        BY <4>1 DEF Pending, NetInv, FlagInv
    <3> QED
      BY <3>1 DEF RelayLines, NetInv, PendingInv
  <2> QED
    BY <2>1, <2>2 DEF Taken
<1>7. \A c \in Circuit : Pending(c) => LineIn(c)
  <2> SUFFICES ASSUME NEW c \in Circuit, Pending(c) PROVE lineStatus[c]
    BY DEF LineIn, Taken
  <2>1. BranchOf[c] \in Branch
    BY DEF InputAssumed, NetworkInput
  <2>2. c \in RelayLines
    BY <2>1 DEF Pending, NetInv, FlagInv
  <2>3. Says("line", "line", c)
    BY <1>1, <2>2, RelaysApart
  <2> QED
    BY <1>1, <2>3 DEF NetInv, SaysInv
<1>8. LineInv'
  <2> SUFFICES ASSUME NEW c \in Circuit
               PROVE  off'[c] = Num(LineIn(c))' /\ off'[RestOf[c]] = Num(lineStatus[c])'
    BY DEF LineInv
  <2>1. /\ off[c] = Num(LineIn(c)) /\ off[RestOf[c]] = Num(lineStatus[c])
        /\ off[c] \in Int /\ off[RestOf[c]] \in Int
        /\ RestOf[c] \in Rest /\ RestOf[c] \notin Circuit
    BY <1>3, PartsApart DEF NetInv, LineInv, InputAssumed
  <2>2. off'[c] = off[c] - (IF Pending(c) THEN 1 ELSE 0)
    <3>1. CASE anyTrip
      BY <1>1, <1>2, <1>3, <3>1 DEF Pending
    <3>2. CASE ~anyTrip
      BY <1>2, <2>1, <3>2 DEF Pending
    <3> QED
      BY <3>1, <3>2
  <2>3. off'[RestOf[c]] = off[RestOf[c]]
    <3>1. CASE anyTrip
      BY <1>2, <1>3, <2>1, <3>1
    <3>2. CASE ~anyTrip
      BY <1>2, <3>2
    <3> QED
      BY <3>1, <3>2
  <2>4. off'[c] = Num(LineIn(c))'
    BY <1>6, <1>7, <2>1, <2>2 DEF Num
  <2>5. off'[RestOf[c]] = Num(lineStatus[c])'
    BY <1>1, <2>1, <2>3 DEF Num
  <2> QED
    BY <2>4, <2>5
<1>9. PlainInv'
  <2> SUFFICES ASSUME NEW b \in Bus \ RelayBuses, NEW p \in Part
               PROVE  diag'[b][p] = Num(InElement(p, b))'
    BY DEF PlainInv
  <2>1. diag[b][p] = Num(InElement(p, b)) /\ diag[b][p] \in Int
    BY <1>3 DEF NetInv, PlainInv
  <2>2. diag'[b][p] = diag[b][p] - (IF p \in Circuit /\ AtBus(p, b) /\ Pending(p) THEN 1 ELSE 0)
    <3>1. CASE anyTrip
      <4>1. diag'[b][p] = diag[b][p] - (IF p \in Circuit /\ Flagged(p, b) THEN 1 ELSE 0)
        BY <1>2, <3>1
      <4>2. p \in Circuit => (Flagged(p, b) <=> AtBus(p, b) /\ Pending(p))
        BY <1>1, <3>1, FlaggedExactly DEF Pending
      <4> QED
        BY <4>1, <4>2
    <3>2. CASE ~anyTrip
      BY <1>2, <2>1, <3>2 DEF Pending
    <3> QED
      BY <3>1, <3>2
  <2>3. CASE p \in Circuit
    <3>1. p # Fault /\ p \notin Gen /\ ~RestIn(p, b) /\ ~RestIn(p, b)'
      BY <2>3, PartsApart DEF InputAssumed, RestIn
    <3>2. InElement(p, b) <=> AtBus(p, b) /\ LineIn(p)
      BY <2>3, <3>1 DEF InElement
    <3>3. InElement(p, b)' <=> AtBus(p, b) /\ LineIn(p)'
      BY <2>3, <3>1 DEF InElement
    <3> QED
      BY <1>6, <1>7, <2>1, <2>2, <2>3, <3>2, <3>3 DEF Num
  <2>4. CASE p \notin Circuit
    <3>1. InElement(p, b)' <=> InElement(p, b)
      BY <1>1, <2>4 DEF InElement, RestIn
    <3> QED
      BY <2>1, <2>2, <2>4, <3>1 DEF Num
  <2> QED
    BY <2>3, <2>4
<1>10. NominalInv'
  BY <1>1 DEF NetInv, NominalInv, Num, InNominal, Operated
<1>11. RelayBusInv'
  <2> SUFFICES ASSUME NEW b \in RelayBuses PROVE diag'[b] = nominal'[b]
    BY DEF RelayBusInv
  <2>1. b \in Bus /\ diag[b] = nominal[b]
    BY <1>1 DEF NetInv, RelayBusInv, RelayBuses
  <2>2. diag'[b] = diag[b]
    <3>1. CASE anyTrip
      <4>1. \A p \in Part : ~(p \in Circuit /\ Flagged(p, b))
        BY <1>1, <2>1, <3>1, FlaggedExactly
      <4>2. diag'[b] = [p \in Part |-> diag[b][p] - 0]
        BY <1>2, <2>1, <3>1, <4>1
      <4>3. \A p \in Part : diag[b][p] - 0 = diag[b][p]
        BY <1>3, <2>1
      <4>4. diag[b] = [p \in Part |-> diag[b][p]]
        BY <1>3, <2>1
      <4> QED
        BY <4>2, <4>3, <4>4
    <3>2. CASE ~anyTrip
      BY <1>2, <3>2
    <3> QED
      BY <3>1, <3>2
  <2> QED
    BY <1>1, <2>1, <2>2
<1>12. FlagInv' /\ PendingInv'
  BY <1>1 DEF NetInv, FlagInv, PendingInv, Pending
<1> QED
  BY <1>4, <1>5, <1>8, <1>9, <1>10, <1>11, <1>12 DEF NetInv

-----------------------------------------------------------------------------
(* The matrix that setup() builds. *)
LEMMA BuiltElement ==
  ASSUME NetworkInput, NEW b \in Bus
  PROVE  /\ BuiltDiag(b) \in [Part -> {0, 1}]
         /\ BuiltDiag(b)[Fault] = 0
         /\ \A c \in Circuit : BuiltDiag(b)[c] = 1 <=> AtBus(c, b)
         /\ \A c \in Circuit : BuiltDiag(b)[RestOf[c]] = 1 <=> AtBus(c, b)
         /\ \A g \in Gen : BuiltDiag(b)[g] = 1 <=> GenBus[g] = b
         /\ \A p \in Sheds : BuiltDiag(b)[p] = 1 <=> \E r \in RelaysOf(b) : BusRelay[r].part = p
<1>1. BuiltDiag(b) \in [Part -> {0, 1}]
  BY DEF BuiltDiag
<1>2. \A p \in Part :
        BuiltDiag(b)[p] = 1 <=>
          \/ \E c \in Circuit : p \in Admittance(c) /\ AtBus(c, b)
          \/ p \in Gen /\ GenBus[p] = b
          \/ p \in Sheds /\ \E r \in RelaysOf(b) : BusRelay[r].part = p
  BY DEF BuiltDiag
<1>3. BuiltDiag(b)[Fault] = 0
  <2>1. Fault \in Part /\ Fault \notin Gen \cup Sheds
    BY PartsApart DEF Part
  <2>2. \A c \in Circuit : Fault \notin Admittance(c)
    BY PartsApart DEF Admittance
  <2>3. BuiltDiag(b)[Fault] # 1 /\ BuiltDiag(b)[Fault] \in {0, 1}
    BY <1>1, <1>2, <2>1, <2>2
  <2> QED
    BY <2>3
<1>4. ASSUME NEW c \in Circuit
      PROVE  /\ BuiltDiag(b)[c] = 1 <=> AtBus(c, b)
             /\ BuiltDiag(b)[RestOf[c]] = 1 <=> AtBus(c, b)
  <2>1. /\ c \in Part /\ c \notin Gen \cup Sheds
        /\ RestOf[c] \in Part /\ RestOf[c] \notin Gen \cup Sheds
    BY PartsApart
  <2>2. \A d \in Circuit : /\ c \in Admittance(d) <=> d = c
                           /\ RestOf[c] \in Admittance(d) <=> d = c
    BY PartsApart, TwoParts
  <2> QED
    BY <1>2, <2>1, <2>2
<1>5. ASSUME NEW p \in Gen \cup Sheds
      PROVE  BuiltDiag(b)[p] = 1 <=>
               \/ p \in Gen /\ GenBus[p] = b
               \/ p \in Sheds /\ \E r \in RelaysOf(b) : BusRelay[r].part = p
  <2>1. p \in Part /\ \A c \in Circuit : p \notin Admittance(c)
    BY PartsApart DEF Admittance, Part
  <2> QED
    BY <1>2, <2>1
<1>6. \A g \in Gen : BuiltDiag(b)[g] = 1 <=> GenBus[g] = b
  BY <1>5, PartsApart
<1>7. \A p \in Sheds : BuiltDiag(b)[p] = 1 <=> \E r \in RelaysOf(b) : BusRelay[r].part = p
  BY <1>5, PartsApart
<1> QED
  BY <1>1, <1>3, <1>4, <1>6, <1>7

(* setup() leaves the matrix of the network as it was read. *)
LEMMA InitNet ==
  ASSUME InputAssumed, Init
  PROVE  NetInv
<1>1. /\ now = 0 /\ pc = "events" /\ i = 1 /\ events \in EventLists
      /\ diag = [b \in Bus |-> BuiltDiag(b)] /\ off = [p \in Circuit \cup Rest |-> 1]
      /\ nominal = diag /\ busFault = [b \in Bus |-> FALSE]
      /\ lineStatus = [c \in Circuit |-> TRUE] /\ inService = [g \in Gen |-> TRUE]
      /\ relay = [r \in Relay |-> Fresh(r)] /\ busTrip = [b \in Bus |-> FALSE]
      /\ newTrip = [br \in Branch |-> {}] /\ trippedBy = [b \in Bus |-> None]
      /\ anyTrip = FALSE
  BY DEF Init
<1>2. \A b \in Bus : BuiltDiag(b) \in [Part -> {0, 1}]
  BY BuiltElement DEF InputAssumed
<1>3. NetType
  <2>1. diag \in [Bus -> [Part -> Int]]
    BY <1>1, <1>2
  <2>2. anyTrip \in BOOLEAN
    BY <1>1, Zenon
  <2>3. /\ busFault \in [Bus -> BOOLEAN] /\ lineStatus \in [Circuit -> BOOLEAN]
        /\ inService \in [Gen -> BOOLEAN] /\ busTrip \in [Bus -> BOOLEAN]
    BY <1>1
  <2>4. /\ newTrip \in [Branch -> SUBSET Circuit] /\ trippedBy \in [Bus -> Branch \cup {None}]
        /\ off \in [Circuit \cup Rest -> Int]
    BY <1>1
  <2> QED
    BY <1>1, <2>1, <2>2, <2>3, <2>4 DEF NetType
<1>4. SaysInv
  <2>1. \A t \in Nat, k \in Nat \ {0} : ~Past(t, k)
    BY <1>1 DEF Past
  <2>2. \A c : Says("line", "line", c)
    BY <1>3, <2>1, EventAt DEF Says
  <2>3. \A g : Says("gen", "gen", g)
    BY <1>3, <2>1, EventAt DEF Says
  <2>4. \A b : ~FaultActive(b)
    BY <1>3, <2>1, EventAt DEF FaultActive
  <2> QED
    BY <1>1, <2>2, <2>3, <2>4 DEF SaysInv
<1>5. \A r \in Relay : ~Operated(r)
  BY <1>1 DEF Operated, Fresh
<1>6. DOMAIN LineRelay \subseteq Relay /\ \A b : RelaysOf(b) \subseteq Relay
  BY DEF Relay, RelaysOf
<1>7. \A c \in Circuit : LineIn(c)
  BY <1>1, <1>5, <1>6 DEF LineIn, Taken
<1>8. FlagInv /\ PendingInv
  BY <1>1 DEF FlagInv, PendingInv, Pending
<1>9. LineInv
  <2>1. \A c \in Circuit : RestOf[c] \in Rest
    BY PartsApart DEF InputAssumed
  <2> QED
    BY <1>1, <1>7, <2>1 DEF LineInv, Num
<1>10. PlainInv
  <2> SUFFICES ASSUME NEW b \in Bus \ RelayBuses, NEW p \in Part
               PROVE  diag[b][p] = Num(InElement(p, b))
    BY DEF PlainInv
  <2>1. diag[b][p] = BuiltDiag(b)[p] /\ BuiltDiag(b)[p] \in {0, 1}
    BY <1>1, <1>2
  <2>2. BuiltDiag(b)[p] = 1 <=> InElement(p, b)
    <3>1. NetworkInput /\ ~busFault[b] /\ \A g \in Gen : inService[g]
      BY <1>1 DEF InputAssumed
    <3>2. CASE p \in Circuit
      BY <1>7, <3>1, <3>2, PartsApart, BuiltElement, NoRest DEF InElement
    <3>3. CASE p \in Rest
      <4>1. PICK c \in Circuit : p = RestOf[c]
        BY <3>1, <3>3, PartsApart
      <4>2. RestIn(p, b) <=> AtBus(c, b)
        BY <1>1, <3>1, <4>1, RestInLaw
      <4> QED
        BY <3>1, <4>1, <4>2, PartsApart, BuiltElement DEF InElement
    <3>4. CASE p \in Gen
      <4>1. p \notin Circuit /\ ~RestIn(p, b)
        BY <3>1, <3>4, PartsApart, NoRest
      <4> QED
        BY <3>1, <3>4, <4>1, BuiltElement DEF InElement
    <3>5. CASE p \in Sheds
      <4>1. p \notin Circuit /\ p \notin Gen /\ ~RestIn(p, b)
        BY <3>1, <3>5, PartsApart, NoRest
      <4>2. RelaysOf(b) = {}
        BY DEF RelayBuses
      <4> QED
        BY <3>1, <3>5, <4>1, <4>2, BuiltElement DEF InElement
    <3>6. CASE p = Fault
      <4>1. p \notin Circuit /\ p \notin Gen /\ ~RestIn(p, b)
        BY <3>1, <3>6, PartsApart, NoRest
      <4> QED
        BY <3>1, <3>6, <4>1, BuiltElement DEF InElement
    <3> QED
      BY <3>2, <3>3, <3>4, <3>5, <3>6 DEF Part
  <2> QED
    BY <2>1, <2>2 DEF Num
<1>11. NominalInv
  <2> SUFFICES ASSUME NEW b \in RelayBuses, NEW p \in Part
               PROVE  nominal[b][p] = Num(InNominal(p, b))
    BY DEF NominalInv
  <2>1. b \in Bus /\ nominal[b][p] = BuiltDiag(b)[p] /\ BuiltDiag(b)[p] \in {0, 1}
    BY <1>1, <1>2 DEF RelayBuses
  <2> QED
    BY <1>5, <1>6, <2>1 DEF InNominal, Num
<1>12. RelayBusInv
  BY <1>1 DEF RelayBusInv
<1> QED
  BY <1>3, <1>4, <1>8, <1>9, <1>10, <1>11, <1>12 DEF NetInv

(* The invariant of the matrix is inductive, for the inputs assumed. *)
THEOREM NetInductive ==
  ASSUME InputAssumed
  PROVE  Spec => [](IInv /\ NetInv)
<1>1. Init => NetInv
  BY InitNet
<1>2. IInv /\ NetInv /\ [Next]_vars => NetInv'
  <2> SUFFICES ASSUME IInv, NetInv, [Next]_vars PROVE NetInv'
    OBVIOUS
  <2>1. CASE FaultStart
    BY <2>1, FaultStartKeeps
  <2>2. CASE FaultEnd
    BY <2>2, FaultEndKeeps
  <2>3. CASE LineSwitch
    BY <2>3, LineSwitchKeeps
  <2>4. CASE GenSwitch
    BY <2>4, GenSwitchKeeps
  <2>5. CASE NotDue
    BY <2>5, NotDueKeeps
  <2>6. CASE SolveNetwork
    BY <2>6, SolveKeeps
  <2>7. CASE UpdateBusRelay
    BY <2>7, BusRelayKeeps
  <2>8. CASE SkipRelay
    BY <2>8, SkipKeeps
  <2>9. CASE OverwriteBuses
    BY <2>9, OverwriteKeeps
  <2>10. CASE UpdateBranchRelay
    BY <2>10, BranchRelayKeeps
  <2>11. CASE IncrementBranches
    BY <2>11, IncrementKeeps
  <2>12. CASE UNCHANGED vars
    <3>1. UNCHANGED <<now, pc, i, events, diag, off, nominal, busFault, lineStatus,
                      inService, relay, busTrip, newTrip, trippedBy, anyTrip>>
      BY <2>12 DEF vars, matrix, devices, trips
    <3>2. NetType' /\ FlagInv' /\ PendingInv' /\ RelayBusInv'
      BY <3>1 DEF NetInv, NetType, FlagInv, PendingInv, RelayBusInv, Pending, Operated
    <3>3. \A c : LineIn(c)' <=> LineIn(c)
      BY <3>1 DEF LineIn, Taken, Pending, Operated
    <3>4. LineInv' /\ PlainInv'
      BY <3>1, <3>3 DEF NetInv, LineInv, PlainInv, Num, InElement, RestIn
    <3>5. NominalInv'
      BY <3>1 DEF NetInv, NominalInv, Num, InNominal, Operated
    <3>6. SamePast
      BY <3>1 DEF SamePast, Past
    <3>7. SaysInv'
      BY <3>1, <3>6, SaysSame DEF NetInv, SaysInv
    <3> QED
      BY <3>2, <3>4, <3>5, <3>7 DEF NetInv
  <2> QED
    BY <2>1, <2>2, <2>3, <2>4, <2>5, <2>6, <2>7, <2>8, <2>9, <2>10, <2>11, <2>12 DEF Next
<1> QED
  BY <1>1, <1>2, Inductive, PTL DEF Spec

-----------------------------------------------------------------------------
(* Which admittances at a bus the network has, by what relays and events   *)
(* say.                                                                    *)
LEMMA NetworkHas ==
  ASSUME NetworkInput, NEW p, NEW b
  PROVE  /\ p = Fault => InNetwork(p, b) = Num(FaultActive(b))
         /\ p \in Circuit =>
              InNetwork(p, b) = IF ~Gone(p) /\ Says("line", "line", p)
                                THEN BuiltDiag(b)[p] ELSE 0
         /\ \A c \in Circuit : p = RestOf[c] =>
              InNetwork(p, b) = IF ~Gone(p) /\ Says("line", "line", c)
                                THEN BuiltDiag(b)[p] ELSE 0
         /\ p \in Gen =>
              InNetwork(p, b) = IF ~Gone(p) /\ Says("gen", "gen", p)
                                THEN BuiltDiag(b)[p] ELSE 0
         /\ p \in Sheds =>
              InNetwork(p, b) = IF ~Gone(p) THEN BuiltDiag(b)[p] ELSE 0
<1>1. CASE p = Fault
  <2>1. p \notin Circuit /\ p \notin Gen /\ p \notin Sheds
        /\ \A c \in Circuit : p # RestOf[c]
    BY <1>1, PartsApart
  <2> QED
    BY <1>1, <2>1 DEF InNetwork, Stands, Num
<1>2. CASE p \in Circuit
  <2>1. /\ p # Fault /\ p \notin Gen /\ p \notin Sheds
        /\ \A c \in Circuit : p # RestOf[c]
    BY <1>2, PartsApart
  <2>2. \A c \in Circuit : p \in Admittance(c) <=> p = c
    BY <1>2, TwoParts
  <2>3. Stands(p, b) <=> ~Gone(p) /\ Says("line", "line", p)
    BY <1>2, <2>1, <2>2 DEF Stands
  <2> QED
    BY <1>2, <2>1, <2>3 DEF InNetwork
<1>3. ASSUME NEW c \in Circuit, p = RestOf[c]
      PROVE  /\ InNetwork(p, b) = IF ~Gone(p) /\ Says("line", "line", c)
                                  THEN BuiltDiag(b)[p] ELSE 0
             /\ p # Fault /\ p \notin Circuit /\ p \notin Gen /\ p \notin Sheds
  <2>1. p # Fault /\ p \notin Circuit /\ p \notin Gen /\ p \notin Sheds
    BY <1>3, PartsApart
  <2>2. \A d \in Circuit : p \in Admittance(d) <=> d = c
    BY <1>3, PartsApart, TwoParts
  <2>3. Stands(p, b) <=> ~Gone(p) /\ Says("line", "line", c)
    BY <2>1, <2>2 DEF Stands
  <2> QED
    BY <2>1, <2>3 DEF InNetwork
<1>4. CASE p \in Gen \cup Sheds
  <2>1. /\ p # Fault /\ p \notin Circuit /\ (p \in Gen => p \notin Sheds)
        /\ \A c \in Circuit : p # RestOf[c] /\ p \notin Admittance(c)
    BY <1>4, PartsApart DEF Admittance
  <2>2. Stands(p, b) <=> ~Gone(p) /\ (p \in Gen => Says("gen", "gen", p))
    BY <2>1 DEF Stands
  <2> QED
    BY <1>4, <2>1, <2>2 DEF InNetwork
<1> QED
  BY <1>1, <1>2, <1>3, <1>4

(* The relays that can take a part out of the network. *)
LEMMA GoneBy ==
  ASSUME InputAssumed, NEW p
  PROVE  /\ p \in Circuit =>
              (Gone(p) <=> \E r \in DOMAIN LineRelay : LineRelay[r] = p /\ Operated(r))
         /\ p \notin Circuit =>
              (Gone(p) <=> \E r \in DOMAIN BusRelay : BusRelay[r].part = p /\ Operated(r))
         /\ p \in Rest => ~Gone(p)
<1>1. \A r \in DOMAIN BusRelay : BusRelay[r].part \notin Circuit /\ BusRelay[r].part \notin Rest
  BY PartOfRelay DEF InputAssumed
<1>2. \A r \in DOMAIN LineRelay : LineRelay[r] \in Circuit /\ r \notin DOMAIN BusRelay
  BY DEF InputAssumed, RelayInput
<1>3. p \in Rest => p \notin Circuit
  BY PartsApart DEF InputAssumed
<1> QED
  BY <1>1, <1>2, <1>3 DEF Relay, Gone

(* Where a step solves, what is in the elements is what is in the network. *)
LEMMA MatrixAgrees ==
  ASSUME InputAssumed, NetInv
  PROVE  MatrixIsNetwork
<1> SUFFICES ASSUME pc = "buses", i = 1
             PROVE  /\ \A b \in Bus : \A p \in Part : diag[b][p] = InNetwork(p, b)
                    /\ \A c \in Circuit : \A p \in Admittance(c) :
                         off[p] = InNetwork(p, Ends[BranchOf[c]][1])
  BY DEF MatrixIsNetwork
<1>1. /\ NetType /\ ~anyTrip /\ NetworkInput
      /\ \A c \in Circuit : lineStatus[c] <=> Says("line", "line", c)
      /\ \A g \in Gen : GenBus[g] \notin RelayBuses => (inService[g] <=> Says("gen", "gen", g))
      /\ \A b \in Bus : busFault[b] <=> FaultActive(b)
  BY DEF NetInv, FlagInv, SaysInv, InputAssumed
<1>2. ASSUME NEW c \in Circuit, NEW b \in Bus, AtBus(c, b)
      PROVE  /\ InNetwork(c, b) = Num(LineIn(c))
             /\ InNetwork(RestOf[c], b) = Num(lineStatus[c])
  <2>1. BuiltDiag(b)[c] = 1 /\ BuiltDiag(b)[RestOf[c]] = 1 /\ RestOf[c] \in Rest
    BY <1>1, <1>2, BuiltElement, PartsApart
  <2>2. LineIn(c) <=> /\ Says("line", "line", c)
                      /\ ~ \E r \in DOMAIN LineRelay : LineRelay[r] = c /\ Operated(r)
    BY <1>1 DEF LineIn, Taken, Pending
  <2>3. InNetwork(c, b) = Num(LineIn(c))
    BY <1>1, <2>1, <2>2, NetworkHas, GoneBy DEF Num
  <2>4. InNetwork(RestOf[c], b) = Num(lineStatus[c])
    BY <1>1, <2>1, NetworkHas, GoneBy DEF Num
  <2> QED
    BY <2>3, <2>4
<1>3. ASSUME NEW c \in Circuit, NEW b \in Bus, ~AtBus(c, b)
      PROVE  InNetwork(c, b) = 0 /\ InNetwork(RestOf[c], b) = 0
  <2>1. /\ BuiltDiag(b)[c] \in {0, 1} /\ BuiltDiag(b)[c] # 1
        /\ BuiltDiag(b)[RestOf[c]] \in {0, 1} /\ BuiltDiag(b)[RestOf[c]] # 1
    BY <1>1, <1>3, BuiltElement, PartsApart
  <2>2. BuiltDiag(b)[c] = 0 /\ BuiltDiag(b)[RestOf[c]] = 0
    BY <2>1
  <2> QED
    BY <1>1, <2>2, NetworkHas
<1>4. ASSUME NEW b \in Bus \ RelayBuses, NEW p \in Part PROVE diag[b][p] = InNetwork(p, b)
  <2>1. diag[b][p] = Num(InElement(p, b))
    BY DEF NetInv, PlainInv
  <2>2. CASE p \in Circuit
    <3>1. InElement(p, b) <=> AtBus(p, b) /\ LineIn(p)
      BY <1>1, <2>2, PartsApart, NoRest DEF InElement
    <3> QED
      BY <1>2, <1>3, <2>1, <2>2, <3>1 DEF Num
  <2>3. CASE p = Fault
    <3>1. InElement(p, b) <=> FaultActive(b)
      BY <1>1, <2>3, PartsApart, NoRest DEF InElement
    <3> QED
      BY <1>1, <2>1, <2>3, <3>1, NetworkHas DEF Num
  <2>4. CASE p \in Gen
    <3>1. p # Fault /\ p \notin Circuit /\ ~RestIn(p, b)
      BY <1>1, <2>4, PartsApart, NoRest
    <3>2. BuiltDiag(b)[p] \in {0, 1} /\ (BuiltDiag(b)[p] = 1 <=> GenBus[p] = b)
      BY <1>1, <2>4, BuiltElement
    <3>3. InElement(p, b) <=> GenBus[p] = b /\ Says("gen", "gen", p)
      BY <1>1, <2>4, <3>1 DEF InElement
    <3>4. GenBus[p] = b => ~ \E r \in DOMAIN BusRelay : BusRelay[r].part = p /\ Operated(r)
      BY <2>4, PartOfRelay DEF InputAssumed, RelayInput
    <3> QED
      BY <1>1, <2>1, <2>4, <3>1, <3>2, <3>3, <3>4, NetworkHas, GoneBy DEF Num
  <2>5. CASE p \in Rest
    <3>1. PICK c \in Circuit : p = RestOf[c]
      BY <1>1, <2>5, PartsApart
    <3>2. InElement(p, b) <=> AtBus(c, b) /\ lineStatus[c]
      BY <1>1, <3>1, PartsApart, RestInLaw DEF InElement
    <3> QED
      BY <1>2, <1>3, <2>1, <3>1, <3>2 DEF Num
  <2>6. CASE p \in Sheds
    <3>1. RelaysOf(b) = {}
      BY DEF RelayBuses
    <3>2. BuiltDiag(b)[p] = 0
      <4>1. BuiltDiag(b)[p] \in {0, 1} /\ BuiltDiag(b)[p] # 1
        BY <1>1, <2>6, <3>1, BuiltElement DEF Part
      <4> QED
        BY <4>1
    <3>3. ~InElement(p, b)
      BY <1>1, <2>6, PartsApart, NoRest DEF InElement
    <3> QED
      BY <1>1, <2>1, <2>6, <3>2, <3>3, NetworkHas DEF Num
  <2> QED
    BY <2>2, <2>3, <2>4, <2>5, <2>6 DEF Part
<1>5. ASSUME NEW b \in RelayBuses, NEW p \in Part PROVE diag[b][p] = InNetwork(p, b)
  <2>0. b \in Bus
    BY DEF RelayBuses
  <2>1. diag[b][p] = Num(InNominal(p, b))
    BY <1>1 DEF NetInv, NominalInv, RelayBusInv
  <2>2. BuiltDiag(b)[p] \in {0, 1}
    BY <1>1, <2>0, BuiltElement
  <2>3. CASE p \in Circuit
    <3>1. \A r \in RelaysOf(b) : BusRelay[r].part # p
      BY <2>3, PartOfRelay DEF InputAssumed, RelaysOf
    <3>2. InNominal(p, b) <=> AtBus(p, b)
      BY <1>1, <2>0, <2>3, <3>1, BuiltElement DEF InNominal
    <3>3. ASSUME AtBus(p, b) PROVE LineIn(p)
      <4>1. lineStatus[p]
        BY <1>1, <2>3, <3>3, RelaysApart
      <4>2. p \notin RelayLines
        BY <3>3 DEF InputAssumed, RelayInput
      <4> QED
        BY <4>1, <4>2 DEF LineIn, Taken, RelayLines
    <3> QED
      BY <1>2, <1>3, <2>0, <2>1, <2>3, <3>2, <3>3 DEF Num
  <2>4. CASE p = Fault
    <3>1. ~InNominal(p, b) /\ ~FaultActive(b)
      <4>1. BuiltDiag(b)[Fault] = 0 /\ ~FaultActive(b)
        BY <1>1, <2>0, BuiltElement, RelaysApart
      <4> QED
        BY <2>4, <4>1 DEF InNominal
    <3> QED
      BY <1>1, <2>1, <2>4, <3>1, NetworkHas DEF Num
  <2>5. CASE p \in Rest
    <3>1. PICK c \in Circuit : p = RestOf[c]
      BY <1>1, <2>5, PartsApart
    <3>2. \A r \in RelaysOf(b) : BusRelay[r].part # p
      BY <2>5, PartOfRelay DEF InputAssumed, RelaysOf
    <3>3. InNominal(p, b) <=> AtBus(c, b)
      BY <1>1, <2>0, <3>1, <3>2, BuiltElement DEF InNominal
    <3>4. AtBus(c, b) => lineStatus[c]
      BY <1>1, RelaysApart
    <3> QED
      BY <1>2, <1>3, <2>0, <2>1, <3>1, <3>3, <3>4 DEF Num
  <2>6. CASE p \in Gen \cup Sheds
    <3>1. p \notin Circuit
      BY <1>1, <2>6, PartsApart
    <3>2. BuiltDiag(b)[p] = 1 =>
            \A r \in DOMAIN BusRelay : BusRelay[r].part = p => r \in RelaysOf(b)
      <4> SUFFICES ASSUME BuiltDiag(b)[p] = 1, NEW r \in DOMAIN BusRelay, BusRelay[r].part = p
                   PROVE  r \in RelaysOf(b)
        OBVIOUS
      <4>1. CASE p \in Gen
        <5>1. GenBus[p] = b /\ GenBus[p] = BusRelay[r].bus
          BY <1>1, <2>0, <4>1, BuiltElement DEF InputAssumed, RelayInput
        <5> QED
          BY <5>1 DEF RelaysOf
      <4>2. CASE p \in Sheds
        <5>1. PICK s \in RelaysOf(b) : BusRelay[s].part = p
          BY <1>1, <2>0, <4>2, BuiltElement
        <5> QED
          BY <5>1 DEF InputAssumed, RelayInput, RelaysOf
      <4> QED
        BY <2>6, <4>1, <4>2
    <3>3. InNominal(p, b) <=>
            /\ BuiltDiag(b)[p] = 1
            /\ ~ \E r \in DOMAIN BusRelay : BusRelay[r].part = p /\ Operated(r)
      <4>1. RelaysOf(b) \subseteq DOMAIN BusRelay
        BY DEF RelaysOf
      <4> QED
        BY <3>2, <4>1 DEF InNominal
    <3>4. p \in Gen => (BuiltDiag(b)[p] = 1 => Says("gen", "gen", p))
      BY <1>1, <2>0, BuiltElement, RelaysApart
    <3> QED
      BY <1>1, <2>1, <2>2, <2>6, <3>1, <3>3, <3>4, NetworkHas, GoneBy DEF Num
  <2> QED
    BY <2>3, <2>4, <2>5, <2>6 DEF Part
<1>6. ASSUME NEW c \in Circuit, NEW p \in Admittance(c)
      PROVE  off[p] = InNetwork(p, Ends[BranchOf[c]][1])
  <2>1. off[c] = Num(LineIn(c)) /\ off[RestOf[c]] = Num(lineStatus[c])
    BY DEF NetInv, LineInv
  <2>2. p = c \/ p = RestOf[c]
    BY DEF Admittance
  <2> QED
    BY <1>1, <1>2, <2>1, <2>2, EndsOfBranch
<1> QED
  BY <1>4, <1>5, <1>6

(* Every step solves with the matrix of the network as events and relays   *)
(* have left it, save the charging and tap ratio of the circuits that line *)
(* relays have opened: events on the grid of steps, one fault at a time,   *)
(* and none at a bus or circuit that a relay acts on.                      *)
THEOREM MatrixAlwaysNetwork ==
  ASSUME InputAssumed
  PROVE  Spec => []MatrixIsNetwork
<1>1. IInv /\ NetInv => MatrixIsNetwork
  BY MatrixAgrees
<1> QED
  BY <1>1, NetInductive, PTL

=============================================================================
