---------------------------- MODULE DynamicEvents ----------------------------
(***************************************************************************)
(* The event-driven dynamic simulation of dsf_main2: DSFullApp::run        *)
(* (dsf_app_module2.cpp) calls handleEvents (dsf_events.cpp) and           *)
(* runonestep until the end time.  Both change one Y matrix that was built *)
(* once, events by adding and subtracting admittances (incrementMatrix),   *)
(* bus relays by writing a diagonal element anew from the bus's own copy   *)
(* of it (overwriteMatrix with p_ybusr, p_ybusi), line relays by           *)
(* subtracting.  What is modelled is how often each admittance is in each  *)
(* element of the matrix; voltages and currents reach the model only as    *)
(* the conditions that the relays see.  One process owns the network.      *)
(*                                                                         *)
(* A circuit has two parts in the matrix: its series admittance 1/(R+jX),  *)
(* named as the circuit, and the rest of its contribution, of the line     *)
(* charging and the tap ratio.  Building the matrix and line events put in *)
(* or take out both; a line relay takes out the first only.  The circuits  *)
(* have no shunts at their ends: those are put in by the building alone    *)
(* (YMBranch::getShunt), and neither events nor relays take them out.      *)
(***************************************************************************)
EXTENDS Integers, Sequences, FiniteSets, SequencesExt

CONSTANTS
  BusOrder,      \* the buses in the order of the factory's loops
  BranchOrder,   \* the branches in that order
  Ends,          \* branch -> <<from bus, to bus>>
  BranchOf,      \* circuit -> branch
  RestOf,        \* circuit -> what it has beside its series admittance
  GenBus,        \* generator -> bus
  BusRelay,      \* bus relay -> [bus, part]: it sheds a part of the load of
                 \* the bus (LVSHBL), or trips a generator there (FRQTPAT)
  LineRelay,     \* line relay (DISTR1) -> circuit
  PickUp,        \* relay -> timer -> evaluations its condition must hold
  Breaker,       \* relay -> evaluations its breaker takes, at least one
  EventLists,    \* the event lists of the input decks considered
  EndStep,       \* number of time steps up to the end time
  None

Bus     == Range(BusOrder)
Branch  == Range(BranchOrder)
Circuit == DOMAIN BranchOf
Gen     == DOMAIN GenBus
Relay   == DOMAIN BusRelay \cup DOMAIN LineRelay
Fault   == "fault"
Sheds   == {BusRelay[r].part : r \in DOMAIN BusRelay} \ Gen
Rest    == Range(RestOf)
Part    == Circuit \cup Rest \cup Gen \cup Sheds \cup {Fault}

\* The pick-up counters of a relay: a LVSHBL has one, a FRQTPAT one for low
\* and one for high frequency, a DISTR1 one for each of two zones.
Timers(r) == IF r \in DOMAIN LineRelay THEN {"zone1", "zone2"}
             ELSE IF BusRelay[r].part \in Gen THEN {"low", "up"}
             ELSE {"low"}
Timer == UNION {Timers(r) : r \in Relay}

\* What an evaluation of a relay can find: the conditions that hold.  The
\* limits of a frequency relay are in order, and a line relay looks for
\* zone 1 inside zone 2 only.
Readings(r) == IF r \in DOMAIN LineRelay
               THEN {{}, {"zone2"}, {"zone1", "zone2"}}
               ELSE {{}} \cup {{t} : t \in Timers(r)}
Sights(rs) == {x \in [rs -> SUBSET Timer] : \A r \in rs : x[r] \in Readings(r)}

\* The times of a relay, in evaluations, one in a time step; a breaker needs
\* that in which its relay picks up.
ASSUME RelayAssumption ==
  /\ DOMAIN PickUp = Relay
  /\ \A r \in Relay : PickUp[r] \in [Timers(r) -> Nat]
  /\ Breaker \in [Relay -> Nat \ {0}]

VARIABLES
  now,           \* Simu_Current_Step; p_current_time is now steps
  pc, i,         \* the loop being run, and its index
  events,        \* p_events
  diag, off,     \* ybus: how often each admittance is in an element
  nominal,       \* p_ybusr, p_ybusi of each bus
  busFault,      \* p_busfault
  lineStatus,    \* YMBranch::p_branch_status
  genStatus,     \* DSFullBus::p_gstatus
  inService,     \* bStatus of the generator models
  relay,         \* counters, outputs and operation status of the relays
  busTrip,       \* p_busrelaytripflag
  newTrip,       \* p_newtripbranchcktidx; not empty: p_branchrelaytripflag
  trippedBy,     \* p_relaytrippedbranch; not None: the from or to flag
  anyTrip,       \* bflag of updateBusRelay and of updateBranchRelay
  past           \* what each evaluation of a relay saw (history)

matrix  == <<diag, off, nominal>>
devices == <<lineStatus, genStatus, inService>>
trips   == <<busTrip, newTrip, trippedBy, anyTrip>>
vars    == <<now, pc, i, events, matrix, busFault, devices, relay, trips, past>>

AtBus(c, b)    == b \in Range(Ends[BranchOf[c]])
RelaysOf(b)    == {r \in DOMAIN BusRelay : BusRelay[r].bus = b}
LineRelays(br) == {r \in DOMAIN LineRelay : BranchOf[LineRelay[r]] = br}

\* What a circuit contributes to an element.
Admittance(c) == {c, RestOf[c]}

\* The diagonal element that setup() builds for bus b: the circuits, the
\* loads and the generators there, each once.
BuiltDiag(b) ==
  [p \in Part |->
     IF \/ \E c \in Circuit : p \in Admittance(c) /\ AtBus(c, b)
        \/ p \in Gen /\ GenBus[p] = b
        \/ p \in Sheds /\ \E r \in RelaysOf(b) : BusRelay[r].part = p
     THEN 1 ELSE 0]

NoPick(r) == [t \in Timers(r) |-> 0]
Fresh(r) == [op |-> TRUE, out |-> FALSE, flag |-> FALSE, pick |-> NoPick(r), brk |-> 0]

\* DSFullApp::setup.
Init ==
  /\ now = 0 /\ pc = "events" /\ i = 1
  /\ events \in EventLists
  /\ diag = [b \in Bus |-> BuiltDiag(b)]
  /\ off = [p \in Circuit \cup Rest |-> 1]
  /\ nominal = diag
  /\ busFault = [b \in Bus |-> FALSE]
  /\ lineStatus = [c \in Circuit |-> TRUE]
  /\ genStatus = [g \in Gen |-> TRUE]
  /\ inService = [g \in Gen |-> TRUE]
  /\ relay = [r \in Relay |-> Fresh(r)]
  /\ busTrip = [b \in Bus |-> FALSE]
  /\ newTrip = [br \in Branch |-> {}]
  /\ trippedBy = [b \in Bus |-> None]
  /\ anyTrip = FALSE
  /\ past = [r \in Relay |-> <<>>]

-----------------------------------------------------------------------------
(* handleEvents: the event list, one event after the other.  Times are in  *)
(* half steps, so that an odd one lies between two steps, more than the    *)
(* tolerance of 1e-6 away from either.                                      *)

Due(t)    == t = 2 * now
Handled   == i' = i + 1 /\ UNCHANGED <<now, pc, events, relay, trips, past>>
Event(k)  == pc = "events" /\ i <= Len(events) /\ events[i].kind = k

\* matrixDiagValues in mode BUSFAULTON and BUSFAULTOFF: every bus that has
\* its flag set contributes, whichever event the mode was set for.
AddFault(d, flags, n) ==
  [b \in Bus |-> IF flags[b] THEN [d[b] EXCEPT ![Fault] = @ + n] ELSE d[b]]

FaultStart ==
  /\ Event("fault") /\ Due(events[i].start)
  /\ busFault' = [busFault EXCEPT ![events[i].bus] = TRUE]
  /\ diag' = AddFault(diag, busFault', 1)
  /\ Handled /\ UNCHANGED <<off, nominal, devices>>

\* An else branch: an event that starts and ends at once only starts.
FaultEnd ==
  /\ Event("fault") /\ ~Due(events[i].start) /\ Due(events[i].end)
  /\ diag' = AddFault(diag, busFault, -1)
  /\ nominal' = AddFault(nominal, busFault, -1)
  /\ busFault' = [b \in Bus |-> FALSE]
  /\ Handled /\ UNCHANGED <<off, devices>>

\* Mutant: the status is not compared.
SwitchedAlways(c, status) == TRUE

\* The status that setLineStatus compares with is YMBranch's.
Switched(c, status) == lineStatus[c] # status

LineSwitch ==
  LET e == events[i]
      n == IF ~Switched(e.line, e.status) THEN 0 ELSE IF e.status THEN 1 ELSE -1
  IN /\ Event("line") /\ Due(e.time)
     /\ diag' = [b \in Bus |-> [p \in Part |->
                   diag[b][p] + IF AtBus(e.line, b) /\ p \in Admittance(e.line)
                                THEN n ELSE 0]]
     /\ off' = [p \in DOMAIN off |->
                  off[p] + IF p \in Admittance(e.line) THEN n ELSE 0]
     /\ lineStatus' = [lineStatus EXCEPT ![e.line] = e.status]
     /\ Handled /\ UNCHANGED <<nominal, busFault, genStatus, inService>>

GenSwitch ==
  LET e == events[i]
      n == IF inService[e.gen] = e.status THEN 0 ELSE IF e.status THEN 1 ELSE -1
  IN /\ Event("gen") /\ Due(e.time)
     /\ diag' = [diag EXCEPT ![GenBus[e.gen]][e.gen] = @ + n]
     /\ genStatus' = IF n = 0 THEN genStatus
                     ELSE [genStatus EXCEPT ![e.gen] = e.status]
     /\ inService' = [inService EXCEPT ![e.gen] = e.status]
     /\ Handled /\ UNCHANGED <<off, nominal, busFault, lineStatus>>

NotDue ==
  /\ pc = "events" /\ i <= Len(events)
  /\ LET e == events[i]
     IN IF e.kind = "fault" THEN ~Due(e.start) /\ ~Due(e.end) ELSE ~Due(e.time)
  /\ Handled /\ UNCHANGED <<matrix, busFault, devices>>

-----------------------------------------------------------------------------
(* runonestep: the network is solved with the matrix, then the relays look *)
(* at voltages, frequencies and currents, and the matrix follows them.     *)

SolveNetwork ==
  /\ pc = "events" /\ i > Len(events)
  /\ pc' = "buses" /\ i' = 1 /\ anyTrip' = FALSE
  /\ UNCHANGED <<now, events, matrix, busFault, devices, relay, busTrip,
                 newTrip, trippedBy, past>>

\* Mutant: no pick-up counter is reset when its condition ends.
NextPickKeeps(r, reading) ==
  IF relay[r].flag THEN relay[r].pick
  ELSE [t \in Timers(r) |-> relay[r].pick[t] + IF t \in reading THEN 1 ELSE 0]

\* The pick-up counters of the bus relays, LVSHBL and FRQTPAT, run while
\* their condition holds and are reset when it does not.
BusPick(pick, reading) ==
  [t \in DOMAIN pick |-> IF t \in reading THEN pick[t] + 1 ELSE 0]

\* DISTR1 resets the counter of zone 1 when the impedance is in zone 2 but
\* not in zone 1.  Outside both zones that counter stays as it is.
LinePick(pick, reading) ==
  IF "zone2" \notin reading THEN [pick EXCEPT !.zone2 = 0]
  ELSE [zone1 |-> IF "zone1" \in reading THEN pick.zone1 + 1 ELSE 0,
        zone2 |-> pick.zone2 + 1]

\* The counters freeze while that of the breaker runs.
NextPick(r, reading) ==
  IF relay[r].flag THEN relay[r].pick
  ELSE IF r \in DOMAIN LineRelay THEN LinePick(relay[r].pick, reading)
  ELSE BusPick(relay[r].pick, reading)

\* One evaluation (updateRelay) of a relay; from the pick-up counters on
\* the three kinds do the same.  The output stays until the next pick-up.
Evaluated(r, reading) ==
  LET picked == NextPick(r, reading)
      armed  == \E t \in Timers(r) : picked[t] >= PickUp[r][t]
      broke  == relay[r].brk + (IF armed THEN 1 ELSE 0)
  IN IF armed /\ broke >= Breaker[r]
     THEN [relay[r] EXCEPT !.out = TRUE, !.flag = FALSE, !.pick = NoPick(r), !.brk = 0]
     ELSE [relay[r] EXCEPT !.out = IF armed THEN FALSE ELSE @, !.flag = armed,
                           !.pick = picked, !.brk = broke]

\* A rising output acts once: the operation status is then withdrawn.
Operates(r, reading) == Evaluated(r, reading).out /\ ~relay[r].out /\ relay[r].op

\* The relays rs are evaluated, x being what they find.
AfterUpdate(rs, x) ==
  [r \in Relay |-> IF r \in rs
                   THEN [Evaluated(r, x[r]) EXCEPT !.op = @ /\ ~Operates(r, x[r])]
                   ELSE relay[r]]

Remember(rs, x) ==
  past' = [r \in Relay |-> IF r \in rs THEN Append(past[r], x[r]) ELSE past[r]]

\* The relays of generators that are out of service by p_gstatus are passed.
Watched(b) == {r \in RelaysOf(b) :
                 BusRelay[r].part \in Gen => genStatus[BusRelay[r].part]}

\* updateBusRelay: bflag = bflag || bus->updateRelay(): once a relay has
\* operated the buses that follow are not evaluated and keep their flags.
UpdateBusRelay ==
  /\ pc = "buses" /\ i <= Len(BusOrder) /\ ~anyTrip
  /\ \E x \in Sights(Watched(BusOrder[i])) :
       LET b   == BusOrder[i]
           act == {r \in Watched(b) : Operates(r, x[r])}
           lost == {BusRelay[r].part : r \in act}
       IN /\ relay' = AfterUpdate(Watched(b), x) /\ Remember(Watched(b), x)
          /\ nominal' = [nominal EXCEPT ![b] =
                           [p \in Part |-> @[p] - IF p \in lost THEN 1 ELSE 0]]
          /\ inService' = [g \in Gen |-> inService[g] /\ g \notin lost]
          /\ busTrip' = [busTrip EXCEPT ![b] = act # {}]
          /\ anyTrip' = (act # {})
  /\ i' = i + 1
  /\ UNCHANGED <<now, pc, events, diag, off, busFault, lineStatus, genStatus,
                 newTrip, trippedBy>>

SkipRelay ==
  /\ \/ pc = "buses" /\ i <= Len(BusOrder)
     \/ pc = "branches" /\ i <= Len(BranchOrder)
  /\ anyTrip
  /\ i' = i + 1
  /\ UNCHANGED <<now, pc, events, matrix, busFault, devices, relay, trips,
                 past>>

\* Mode bus_relay, overwriteMatrix: the whole element is written anew.
\* (The code does this after both loops; neither reads the matrix.)
OverwriteBuses ==
  /\ pc = "buses" /\ i > Len(BusOrder)
  /\ diag' = IF anyTrip
             THEN [b \in Bus |-> IF busTrip[b] THEN nominal[b] ELSE diag[b]]
             ELSE diag
  /\ pc' = "branches" /\ i' = 1 /\ anyTrip' = FALSE
  /\ UNCHANGED <<now, events, off, nominal, busFault, devices, relay, busTrip,
                 newTrip, trippedBy, past>>

\* DSFullBranch::updateRelay takes back the flags of both end buses first.
UpdateBranchRelay ==
  /\ pc = "branches" /\ i <= Len(BranchOrder) /\ ~anyTrip
  /\ \E x \in Sights(LineRelays(BranchOrder[i])) :
       LET br  == BranchOrder[i]
           act == {r \in LineRelays(br) : Operates(r, x[r])}
       IN /\ relay' = AfterUpdate(LineRelays(br), x) /\ Remember(LineRelays(br), x)
          /\ newTrip' = [newTrip EXCEPT ![br] = {LineRelay[r] : r \in act}]
          /\ trippedBy' = [b \in Bus |-> IF b \notin Range(Ends[br])
                                         THEN trippedBy[b]
                                         ELSE IF act = {} THEN None ELSE br]
          /\ anyTrip' = (act # {})
  /\ i' = i + 1
  /\ UNCHANGED <<now, pc, events, matrix, busFault, devices, busTrip>>

\* Mode branch_relay, incrementMatrix: of whatever is flagged the series
\* admittance is taken off (getBranchRelayTripUpdateFactor); the charging
\* and what the tap ratio adds stay in.
Flagged(c, b) == trippedBy[b] # None /\ c \in newTrip[trippedBy[b]]

IncrementBranches ==
  /\ pc = "branches" /\ i > Len(BranchOrder)
  /\ IF anyTrip
     THEN /\ diag' = [b \in Bus |-> [p \in Part |->
                        diag[b][p] - IF p \in Circuit /\ Flagged(p, b)
                                     THEN 1 ELSE 0]]
          /\ off' = [p \in DOMAIN off |->
                       off[p] - IF p \in Circuit /\ p \in newTrip[BranchOf[p]]
                                THEN 1 ELSE 0]
     ELSE UNCHANGED <<diag, off>>
  /\ now' = now + 1 /\ i' = 1
  /\ pc' = IF now' < EndStep THEN "events" ELSE "done"
  /\ UNCHANGED <<events, nominal, busFault, devices, relay, trips, past>>

Next ==
  \/ FaultStart \/ FaultEnd \/ LineSwitch \/ GenSwitch \/ NotDue
  \/ SolveNetwork \/ UpdateBusRelay \/ SkipRelay \/ OverwriteBuses
  \/ UpdateBranchRelay \/ IncrementBranches

Spec == Init /\ [][Next]_vars

-----------------------------------------------------------------------------
(* Properties *)

\* The events that have taken place: those handled in earlier steps and,
\* in this one, those before i.
Past(t, k) == t < 2 * now \/ (t = 2 * now /\ (pc # "events" \/ k < i))

\* What the event list says of a device: its last change so far, later in
\* time first and later in the list at the same time.
Says(kind, field, x) ==
  LET on == {k \in DOMAIN events : /\ events[k].kind = kind
                                   /\ events[k][field] = x
                                   /\ Past(events[k].time, k)}
      After(k, l) == \/ events[k].time > events[l].time
                     \/ events[k].time = events[l].time /\ k >= l
  IN \A k \in on : (\A l \in on : After(k, l)) => events[k].status

Operated(r)   == ~relay[r].op
FaultActive(b) ==
  \E k \in DOMAIN events : /\ events[k].kind = "fault" /\ events[k].bus = b
                           /\ Past(events[k].start, k)
                           /\ ~Past(events[k].end, k)

\* A relay has taken part p out.
Gone(p) ==
  \E r \in Relay : /\ Operated(r)
                   /\ p = IF r \in DOMAIN BusRelay
                          THEN BusRelay[r].part ELSE LineRelay[r]

\* Part p is in service: as the events say, unless a relay has taken it out.
\* A line relay takes out a series admittance; the rest of its circuit is
\* here reckoned in service, as it stays in the matrix.
Stands(p, b) ==
  IF p = Fault THEN FaultActive(b)
  ELSE /\ ~Gone(p)
       /\ \A c \in Circuit : p \in Admittance(c) => Says("line", "line", c)
       /\ p \in Gen => Says("gen", "gen", p)

\* How often the network as it now stands has an admittance at bus b.
InNetwork(p, b) ==
  IF Stands(p, b) THEN (IF p = Fault THEN 1 ELSE BuiltDiag(b)[p]) ELSE 0

\* The matrix that a step solves with is that of the network as the event
\* list and the relays have left it: every admittance that is in service is
\* in it exactly once, on the diagonal and off it, and none that is not,
\* save the charging and tap ratio of the circuits that line relays have
\* opened.
MatrixIsNetwork ==
  pc = "buses" /\ i = 1 =>
    /\ \A b \in Bus : \A p \in Part : diag[b][p] = InNetwork(p, b)
    /\ \A c \in Circuit : \A p \in Admittance(c) :
         off[p] = InNetwork(p, Ends[BranchOf[c]][1])

\* The evaluations up to the one at last that timer t of a relay may count,
\* given what they saw: its condition held, and none since has found it
\* ended.  Zone 1 has ended for a line relay when it sees zone 2 alone.
Ended(t, reading) == t \notin reading /\ (t = "zone1" => "zone2" \in reading)
CountedBy(t, saw, last) ==
  {k \in 1 .. last : t \in saw[k] /\ \A l \in k .. last : ~Ended(t, saw[l])}

\* A relay operates only when one of its conditions held in as many of its
\* evaluations as its pick-up time has, without one in between that found
\* it ended, up to the one at which its breaker time began.  (Evaluations:
\* in a step in which it is passed over a relay sees nothing.)
RelayIsPatient ==
  [][\A r \in Relay :
       Operated(r)' /\ ~Operated(r) =>
         LET last == Len(past'[r]) - Breaker[r] + 1
         IN \E t \in Timers(r) :
              Cardinality(CountedBy(t, past'[r], last)) >= PickUp[r][t]]_vars

\* What the comment on setLineStatus promises: once an event has opened a
\* circuit, with none closing it since, no bus of it carries its admittance
\* in the matrix.
LineStaysOut ==
  \A c \in Circuit : \A b \in Bus :
    AtBus(c, b) /\ ~Says("line", "line", c) =>
      \A p \in Admittance(c) : diag[b][p] = 0

-----------------------------------------------------------------------------
\* The inputs for which MatrixIsNetwork is claimed.

\* The buses and the circuits that relays act on.
RelayBuses == {b \in Bus : RelaysOf(b) # {}}
RelayLines == {LineRelay[r] : r \in DOMAIN LineRelay}

\* The input is a network: branches join buses, devices have a place in it
\* and are told apart.
NetworkInput ==
  /\ BusOrder \in Seq(Bus) /\ BranchOrder \in Seq(Branch)
  /\ Ends \in [Branch -> Bus \X Bus] /\ None \notin Branch
  /\ BranchOf \in [Circuit -> Branch]
  /\ RestOf \in [Circuit -> Rest] /\ Rest \cap Circuit = {}
  /\ \A c, d \in Circuit : RestOf[c] = RestOf[d] => c = d
  /\ GenBus \in [Gen -> Bus]
  /\ (Circuit \cup Rest) \cap (Gen \cup Sheds) = {}
  /\ Fault \notin Circuit \cup Rest \cup Gen \cup Sheds

\* No two relays act on the same part.  Line relays are on circuits of one
\* branch, away from the buses with relays: the flags of a branch that is
\* passed over are those of an earlier step, and its circuit would be
\* taken off again.
RelayInput ==
  /\ DOMAIN BusRelay \cap DOMAIN LineRelay = {}
  /\ \A r \in DOMAIN BusRelay : BusRelay[r].bus \in Bus
  /\ \A r \in DOMAIN BusRelay :
       BusRelay[r].part \in Gen => GenBus[BusRelay[r].part] = BusRelay[r].bus
  /\ \A r, s \in DOMAIN BusRelay : BusRelay[r].part = BusRelay[s].part => r = s
  /\ LineRelay \in [DOMAIN LineRelay -> Circuit]
  /\ \A r, s \in DOMAIN LineRelay : LineRelay[r] = LineRelay[s] => r = s
  /\ \A c, d \in RelayLines : BranchOf[c] = BranchOf[d]
  /\ \A c \in RelayLines : \A b \in RelayBuses : ~AtBus(c, b)

FaultEvent == [kind : {"fault"}, bus : Bus, start : Nat, end : Nat]
LineEvent  == [kind : {"line"}, line : Circuit, status : BOOLEAN, time : Nat]
GenEvent   == [kind : {"gen"}, gen : Gen, status : BOOLEAN, time : Nat]

AtStep(t) == \E n \in 0 .. t : t = 2 * n

\* What an event may be: on the grid of steps, a fault ending after it
\* starts, and none at a bus or circuit that a relay acts on.
Proper(e) ==
  /\ e.kind = "fault" => /\ AtStep(e.start) /\ AtStep(e.end)
                         /\ e.start < e.end /\ e.bus \notin RelayBuses
  /\ e.kind = "line" => /\ AtStep(e.time) /\ e.line \notin RelayLines
                        /\ \A b \in RelayBuses : ~AtBus(e.line, b)
  /\ e.kind = "gen" => AtStep(e.time) /\ GenBus[e.gen] \notin RelayBuses

\* Fault k of the list is over before fault l starts.
Over(ev, k, l) == \/ ev[k].end < ev[l].start
                  \/ ev[k].end = ev[l].start /\ k < l

\* The event lists: proper events, and never two faults at a time.
EventInput ==
  \A ev \in EventLists :
    /\ ev \in Seq(FaultEvent \cup LineEvent \cup GenEvent)
    /\ \A k \in DOMAIN ev : Proper(ev[k])
    /\ \A k, l \in DOMAIN ev :
         k # l /\ ev[k].kind = "fault" /\ ev[l].kind = "fault" =>
           Over(ev, k, l) \/ Over(ev, l, k)

InputAssumed == NetworkInput /\ RelayInput /\ EventInput

=============================================================================
