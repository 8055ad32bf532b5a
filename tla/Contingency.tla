---------------------------- MODULE Contingency ----------------------------
(***************************************************************************)
(* What one process does to its network for every contingency case: the    *)
(* elements of an event go out of service, buses without a line and small  *)
(* islands are isolated, the reference (slack) bus moves if its generators *)
(* are out, the case is solved, and everything is put back for the next    *)
(* case.  Code: setContingency, unSetContingency and solve of PFAppModule, *)
(* PFFactoryModule, the status handling of PFBus and PFBranch, and         *)
(* runOneCase of the contingency driver.                                   *)
(*                                                                         *)
(* groupSize is 1, as by default: the process owns the whole network.      *)
(* Voltages are not modelled (every case begins with resetVoltages); the   *)
(* numerical solver is a choice of its outcome and of the controllers that *)
(* acted.  The elements of an event are a set: no element is named twice.  *)
(***************************************************************************)
EXTENDS Integers, FiniteSets, FiniteSetsExt, Functions

CONSTANTS
  NBus,           \* buses are their local indices, 1 .. NBus
  Line,           \* the line elements
  Gen,            \* the generators
  Ends,           \* the two buses of a line
  GenBus,         \* the bus of a generator
  Cap,            \* p_pt: the real power capacity of a generator
  Slack,          \* the bus of type 3
  InitPV,         \* the buses that load() made PV
  InitIsolated,   \* the buses of type 4
  InitLineOn,     \* the lines and ...
  InitGenOn,      \* ... generators in service in the network file
  Events,         \* [kind, elems, missing]: missing elements are not found
  QlimSettings,   \* pairs <<Powerflow.qlim, Contingency_analysis.qlim>>
  Controllers     \* what solve() may move besides: "shunt", "ltc", "area"

Bus == 1 .. NBus

ASSUME NetworkAssumption ==
  /\ NBus \in Nat
  /\ Line \cap Gen = {}
  /\ Ends \in [Line -> SUBSET Bus]
  /\ GenBus \in [Gen -> Bus]
  /\ Cap \in [Gen -> Nat]
  /\ Slack \in Bus
  /\ InitIsolated \subseteq Bus
  /\ InitLineOn \subseteq Line
  /\ InitGenOn \subseteq Gen
  /\ InitPV \subseteq {GenBus[g] : g \in InitGenOn} \ {Slack}
ASSUME EventsAssumption ==
  /\ \A e \in Events :
       \/ e.kind = "Branch" /\ e.elems \subseteq Line /\ e.missing \in BOOLEAN
       \/ e.kind = "Generator" /\ e.elems \subseteq Gen /\ e.missing \in BOOLEAN
  /\ QlimSettings \subseteq BOOLEAN \X BOOLEAN
  /\ Controllers \subseteq {"shunt", "ltc", "area"}

VARIABLES
  lineOn,      \* the lines in service (p_branch_status)
  genOn,       \* the generators in service (p_gstatus)
  isolated,    \* the buses with p_isolated
  ref,         \* the buses with the reference flag
  isPV,        \* the buses with p_isPV
  saveisPV,    \* the buses with p_saveisPV
  save2isPV,   \* the buses with p_save2isPV
  qgSet,       \* the generators whose p_qg is no longer p_saveQg
  moved,       \* the controllers that are off their initial setting
  lone,        \* p_loneBusIndices
  loneSaved,   \* those of them whose saved flag (p_saveIsolatedStatus) is true
  island,      \* p_islandIsolatedBusIndices
  islandSaved, \* those of them whose saved flag is true
  islandCount, \* p_islandCount
  slackOrig,   \* p_originalSlackBusIdx
  slackCur,    \* p_currentSlackBusIdx
  transferred, \* p_slackTransferred
  event,       \* the event being processed
  saved,       \* its elements whose saved status is true
  found,       \* what setContingency returned
  mode,        \* "cpu", "overlay" of a batched solution, "probe" or "none"
  qlim,        \* the two qlim settings of the input file
  pc,
  base         \* the network as the base case left it (history)

pvVars == <<isPV, saveisPV, save2isPV, qgSet>>
undoVars == <<lone, loneSaved, island, islandSaved, islandCount,
              slackOrig, slackCur, transferred, saved>>
netVars == <<lineOn, genOn, isolated, ref, moved>>
vars == <<netVars, pvVars, undoVars, event, found, mode, qlim, pc, base>>

PFQlim == qlim[1]
CAQlim == qlim[2]

(* All that a later case could tell from the base case. *)
Network == [lineOn |-> lineOn, genOn |-> genOn, isolated |-> isolated,
            ref |-> ref, isPV |-> isPV, qgSet |-> qgSet, moved |-> moved]

NoEvent == [kind |-> "none", elems |-> {}, missing |-> FALSE]

Init ==
  /\ lineOn = InitLineOn
  /\ genOn = InitGenOn
  /\ isolated = InitIsolated
  /\ ref = {Slack}
  /\ isPV = InitPV /\ saveisPV = InitPV /\ save2isPV = InitPV
  /\ qgSet = {}
  /\ moved = {}
  /\ lone = {} /\ loneSaved = {}
  /\ island = {} /\ islandSaved = {} /\ islandCount = 0
  /\ slackOrig = -1 /\ slackCur = -1 /\ transferred = FALSE
  /\ event = NoEvent /\ saved = {} /\ found = FALSE /\ mode = "none"
  /\ qlim \in QlimSettings
  /\ pc = "start"
  /\ base = Network

-----------------------------------------------------------------------------
(* Topology. *)

(* checkLoneBus: not isolated, and no neighbouring branch has a line on.   *)
LoneBuses(on, iso) == {b \in Bus \ iso : \A l \in on : b \notin Ends[l]}

(* The ends of the lines in service that touch some of these buses.        *)
Neighbours(buses, on, active) ==
  UNION {Ends[l] : l \in {k \in on : /\ Ends[k] \subseteq active
                                    /\ Ends[k] \cap buses # {}}}

(* What the search from b finds: it leaves every set of buses that has b,  *)
(* as long as the set has a neighbour outside.                             *)
Reach(b, on, active) ==
  {c \in active :
     \A s \in SUBSET active :
       b \in s /\ c \notin s => ~ (Neighbours(s, on, active) \subseteq s)}

(* A plausible bug: the status of the lines is not looked at. *)
IslandsOfAllLines(on, active) == {Reach(b, Line, active) : b \in active}

IslandsOf(on, active) == {Reach(b, on, active) : b \in active}

(* The largest island; of several, the one the search meets first. *)
MainIsland(islands) ==
  CHOOSE i \in islands :
    \A j \in islands :
      \/ Cardinality(j) < Cardinality(i)
      \/ Cardinality(j) = Cardinality(i) /\ Min(i) <= Min(j)

-----------------------------------------------------------------------------
(* Generators and the reference bus. *)

HasOnlineGen(b, on) == \E g \in on : GenBus[g] = b

Capacity(b, on) == SumFunctionOnSet(Cap, {g \in on : GenBus[g] = b})

(* Plausible bugs, for the mutants: the definition each stands for follows *)
(* it.                                                                     *)

(* setGenStatus(false) does not look for the last generator of a bus. *)
LosesPVNever(off) == {}

(* setGenStatus(true) asks for the flag the outage has cleared. *)
RegainsPVByFlag(on) == {b \in isPV : \E g \in on \ genOn : GenBus[g] = b}

(* The old statuses outlive their event. *)
CaseOverKeepsSaved ==
  event' = NoEvent /\ found' = FALSE /\ mode' = "none" /\ UNCHANGED saved

(* restoreSlack sets the flag of the old bus and leaves that of the new. *)
RestoreSlackKeepsBoth ==
  /\ ref' = IF transferred THEN ref \cup {slackOrig} ELSE ref
  /\ transferred' = FALSE
  /\ slackCur' = IF transferred THEN slackOrig ELSE slackCur

(* The buses checkAndTransferSlack may move the reference to: not isolated *)
(* and of the largest online capacity, which must be positive; it takes    *)
(* the first of them.                                                      *)
Candidates(on, iso) ==
  {b \in Bus \ iso :
     /\ Capacity(b, on) > 0
     /\ \A c \in Bus \ iso : Capacity(c, on) <= Capacity(b, on)}

(* setGenStatus(g, false) for all g of G: a PV bus whose last generator    *)
(* goes out becomes PQ, and p_saveisPV remembers that it was PV.           *)
LosesPV(off) == {b \in isPV : ~ HasOnlineGen(b, genOn \ off)
                              /\ \E g \in off \cap genOn : GenBus[g] = b}

(* setGenStatus(g, true) for all g of G: a bus that was PV is PV again.    *)
RegainsPV(on) == {b \in saveisPV : \E g \in on \ genOn : GenBus[g] = b}

(* chkQlim on all buses: every PV bus saves that it is one and spreads the *)
(* required Q over its online generators; those in conv become PQ.         *)
CheckQlim(conv) ==
  /\ isPV' = isPV \ conv
  /\ save2isPV' = save2isPV \cup isPV
  /\ qgSet' = qgSet \cup {g \in genOn : GenBus[g] \in isPV}
  /\ UNCHANGED saveisPV

(* clearQlimViolations, if this analysis checks Q limits: a bus with an    *)
(* online generator is again what chkQlim saved, and p_qg is p_saveQg.     *)
ClearQlim ==
  IF CAQlim
  THEN /\ isPV' = {b \in Bus : IF HasOnlineGen(b, genOn)
                               THEN b \in save2isPV ELSE b \in isPV}
       /\ qgSet' = {}
  ELSE UNCHANGED <<isPV, qgSet>>

-----------------------------------------------------------------------------
(* solve(), followed by the driver's own Q-limit check, which solves again *)
(* when it converted a bus.  The checks run after a converged Newton       *)
(* iteration and inside one that stagnates, so a solve that fails may have *)
(* run them or not.                                                        *)
SolveEffect(checked, conv, by) ==
  /\ checked => PFQlim \/ CAQlim
  /\ conv # {} => checked
  /\ IF checked THEN CheckQlim(conv) ELSE UNCHANGED pvVars
  /\ moved' = moved \cup by

(* The base case: a failure aborts the program. *)
BaseSolve ==
  /\ pc = "start"
  /\ \E conv \in SUBSET isPV, by \in SUBSET Controllers :
       SolveEffect(PFQlim \/ CAQlim, conv, by)
  /\ pc' = "basesolved"
  /\ UNCHANGED <<lineOn, genOn, isolated, ref, undoVars, event, found, mode,
                 qlim, base>>

BaseDone ==
  /\ pc = "basesolved"
  /\ ClearQlim
  /\ pc' = "idle"
  /\ UNCHANGED <<netVars, saveisPV, save2isPV, undoVars, event, found, mode,
                 qlim>>
  /\ base' = Network'

(* setContingency(e): the elements go out of service, their old status     *)
(* being saved first; then checkLoneBus, checkAndTransferSlack and         *)
(* detectIslands.  The driver calls it for a case that is to be solved or  *)
(* overlaid; the batch assembler for a branch event it is to classify, and *)
(* undoes it at once (a probe); so does the driver when an overlay fails.  *)
(* A network without reference bus ("this shouldn't happen") is left to    *)
(* the invariant OneReference.                                             *)
SetContingency(e, m) ==
  LET lOn == lineOn \ e.elems
      gOn == genOn \ e.elems
      alone == LoneBuses(lOn, isolated)
      iso1 == isolated \cup alone
      old == Min(ref)
      cands == Candidates(gOn, iso1)
      stays == HasOnlineGen(old, gOn)
      new == IF stays \/ cands = {} THEN old ELSE Min(cands)
      active == Bus \ iso1
      islands == IslandsOf(lOn, active)
      small == IF Cardinality(islands) <= 1 THEN {}
               ELSE active \ MainIsland(islands)
  IN
  /\ pc = "idle"
  /\ m # "cpu" => e.kind = "Branch"
  /\ event' = e
  /\ mode' = m
  /\ saved' = e.elems \cap (lineOn \cup genOn)
  /\ lineOn' = lOn
  /\ genOn' = gOn
  /\ isPV' = isPV \ LosesPV(e.elems)
  /\ saveisPV' = saveisPV \cup LosesPV(e.elems)
  /\ lone' = alone
  /\ loneSaved' = alone \cap isolated
  /\ slackOrig' = old
  /\ IF stays
     THEN transferred' = FALSE /\ slackCur' = old
     ELSE IF cands # {}
          THEN transferred' = TRUE /\ slackCur' = new
          ELSE UNCHANGED <<transferred, slackCur>>
  /\ ref' = (ref \ {old}) \cup {new}
  /\ islandCount' = Cardinality(islands)
  /\ IF Cardinality(islands) <= 1
     THEN islandSaved' = {} /\ UNCHANGED island
     ELSE island' = small /\ islandSaved' = small \cap iso1
  /\ isolated' = iso1 \cup small
  /\ found' = (~ e.missing /\ (stays \/ cands # {}))
  /\ pc' = "set"
  /\ UNCHANGED <<save2isPV, qgSet, moved, qlim, base>>

(* contingencyFound && !islandDetected *)
Solvable == found /\ islandCount <= 1

Solve ==
  /\ pc = "set"
  /\ mode = "cpu"
  /\ Solvable
  /\ \E checked \in BOOLEAN, conv \in SUBSET isPV, by \in SUBSET Controllers :
       SolveEffect(checked, conv, by)
  /\ pc' = "solved"
  /\ UNCHANGED <<lineOn, genOn, isolated, ref, undoVars, event, found, mode,
                 qlim, base>>

(* The event and what is known of it are forgotten. *)
CaseOver == event' = NoEvent /\ saved' = {} /\ found' = FALSE /\ mode' = "none"

(* restoreSlack *)
RestoreSlack ==
  /\ ref' = IF transferred /\ slackOrig # slackCur
            THEN (ref \ {slackCur}) \cup {slackOrig} ELSE ref
  /\ transferred' = FALSE
  /\ slackCur' = IF transferred THEN slackOrig ELSE slackCur

(* unSetContingency: clearLoneBus, clearIslands, restoreSlack, switched    *)
(* shunts and taps to their initial settings, then the saved statuses.     *)
UnSetContingency ==
  /\ \/ pc = "solved"
     \/ pc = "set" /\ (mode # "cpu" \/ ~ Solvable)
  /\ isolated' = (((isolated \ lone) \cup loneSaved) \ island) \cup islandSaved
  /\ lone' = {} /\ loneSaved' = {} /\ island' = {} /\ islandSaved' = {}
  /\ islandCount' = 0
  /\ RestoreSlack
  /\ moved' = moved \ {"shunt", "ltc"}
  /\ lineOn' = IF event.kind = "Branch"
               THEN (lineOn \ event.elems) \cup saved ELSE lineOn
  /\ genOn' = IF event.kind = "Generator"
              THEN (genOn \ event.elems) \cup saved ELSE genOn
  /\ isPV' = IF event.kind = "Generator" THEN isPV \cup RegainsPV(saved) ELSE isPV
  /\ IF mode = "probe"
     THEN pc' = "idle" /\ CaseOver
     ELSE pc' = "unset" /\ UNCHANGED <<event, saved, found, mode>>
  /\ UNCHANGED <<saveisPV, save2isPV, qgSet, slackOrig, qlim, base>>

(* The end of runOneCase, with the generators back. *)
EndCase ==
  /\ pc = "unset"
  /\ ClearQlim
  /\ CaseOver
  /\ pc' = "idle"
  /\ UNCHANGED <<netVars, saveisPV, save2isPV, lone, loneSaved, island,
                 islandSaved, islandCount, slackOrig, slackCur, transferred,
                 qlim, base>>

(* The screen of a batched result: its state is overlaid on the base case  *)
(* without setContingency, the driver's controllers are asked what they    *)
(* would do, and what they did is cleared.  Waves need area interchange    *)
(* off.                                                                    *)
ScreenCase ==
  /\ pc = "idle"
  /\ CAQlim \/ Controllers # {}
  /\ "area" \notin Controllers
  /\ \E conv \in SUBSET isPV, by \in SUBSET Controllers :
       /\ IF CAQlim THEN CheckQlim(conv) ELSE UNCHANGED pvVars
       /\ moved' = moved \cup by
  /\ pc' = "screened"
  /\ UNCHANGED <<lineOn, genOn, isolated, ref, undoVars, event, found, mode,
                 qlim, base>>

EndScreen ==
  /\ pc = "screened"
  /\ ClearQlim
  /\ moved' = moved \ {"shunt", "ltc"}
  /\ pc' = "idle"
  /\ UNCHANGED <<lineOn, genOn, isolated, ref, saveisPV, save2isPV, undoVars,
                 event, found, mode, qlim, base>>

Next ==
  \/ BaseSolve
  \/ BaseDone
  \/ \E e \in Events, m \in {"cpu", "overlay", "probe"} : SetContingency(e, m)
  \/ Solve
  \/ UnSetContingency
  \/ EndCase
  \/ ScreenCase
  \/ EndScreen

Spec == Init /\ [][Next]_vars

-----------------------------------------------------------------------------
TypeOK ==
  /\ lineOn \subseteq Line /\ genOn \subseteq Gen
  /\ isolated \subseteq Bus /\ ref \subseteq Bus
  /\ isPV \subseteq Bus /\ saveisPV \subseteq Bus /\ save2isPV \subseteq Bus
  /\ qgSet \subseteq Gen /\ moved \subseteq Controllers
  /\ lone \subseteq Bus /\ loneSaved \subseteq lone
  /\ island \subseteq Bus /\ islandSaved \subseteq island
  /\ islandCount \in Nat
  /\ slackOrig \in Bus \cup {-1} /\ slackCur \in Bus \cup {-1}
  /\ transferred \in BOOLEAN
  /\ event \in Events \cup {NoEvent}
  /\ saved \subseteq event.elems
  /\ found \in BOOLEAN
  /\ mode \in {"none", "cpu", "overlay", "probe"}
  /\ qlim \in BOOLEAN \X BOOLEAN
  /\ pc \in {"start", "basesolved", "idle", "set", "solved", "unset",
            "screened"}

(* "Return network to its original base case state": between two cases,    *)
(* and after a probe of the batch assembler, nothing is left of the last   *)
(* event: status, isolation, reference bus, PV/PQ types, scheduled Q and   *)
(* controller settings are those of the base case.                         *)
ReturnsToBase == pc = "idle" => Network = base

(* There is always exactly one reference bus. *)
OneReference == \E b \in Bus : ref = {b}

(* A case is solved on one connected network: however the buses that take *)
(* part are divided in two, a line in service joins the parts.             *)
SolvedIfConnected ==
  pc = "solved" =>
    LET active == Bus \ isolated IN
    \A part \in SUBSET active :
      part # {} /\ part # active =>
        \E l \in lineOn : /\ Ends[l] \subseteq active
                          /\ Ends[l] \cap part # {} /\ Ends[l] \ part # {}

(* A PV bus has a generator to hold its voltage, in every state between    *)
(* the outage of its generators, a Q-limit conversion and their undoing.   *)
PVHasGenerator == \A b \in isPV : HasOnlineGen(b, genOn)

=============================================================================
