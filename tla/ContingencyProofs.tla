------------------------- MODULE ContingencyProofs -------------------------
(***************************************************************************)
(* Proofs about Contingency, for every network and every list of events.   *)
(* They rest on one inductive invariant, IInv: p_saveisPV and p_save2isPV  *)
(* never differ from what load() set, and while an event is in force the   *)
(* undo information says exactly how the network differs from the base.    *)
(*                                                                         *)
(* What is assumed of the input file is named: the two analyses agree on   *)
(* Q limits (the run of MCContingencyQlim.cfg shows what happens           *)
(* otherwise), and no controller moves a setting.  That a case is solved   *)
(* on one connected network needs neither, and has its own invariant.      *)
(***************************************************************************)
EXTENDS Contingency, FiniteSetTheorems, WellFoundedInduction, TLAPS

QlimAgrees == \A q \in QlimSettings : q[1] => q[2]
NoControllers == Controllers = {}

(* The network every case starts from. *)
BaseNet == [lineOn |-> InitLineOn, genOn |-> InitGenOn,
            isolated |-> InitIsolated, ref |-> {Slack}, isPV |-> InitPV,
            qgSet |-> {}, moved |-> {}]

NothingToUndo ==
  /\ lone = {} /\ loneSaved = {} /\ island = {} /\ islandSaved = {}
  /\ ~ transferred

SettingsInv ==
  /\ PFQlim => CAQlim
  /\ moved = {}
  /\ ~ CAQlim => qgSet = {}

PVInv ==
  /\ saveisPV = InitPV
  /\ save2isPV = InitPV
  /\ isPV \subseteq InitPV
  /\ PVHasGenerator

BetweenInv ==
  pc \in {"start", "basesolved", "idle", "unset", "screened"} =>
    /\ lineOn = InitLineOn /\ genOn = InitGenOn
    /\ isolated = InitIsolated /\ ref = {Slack}
    /\ NothingToUndo
    /\ pc = "idle" => isPV = InitPV /\ qgSet = {}
    /\ ~ CAQlim => isPV = InitPV

InCaseInv ==
  pc \in {"set", "solved"} =>
    /\ event \in Events
    /\ saved = event.elems \cap (InitLineOn \cup InitGenOn)
    /\ lineOn = InitLineOn \ event.elems
    /\ genOn = InitGenOn \ event.elems
    /\ isolated = InitIsolated \cup lone \cup island
    /\ lone \cap InitIsolated = {} /\ loneSaved = {}
    /\ island \cap InitIsolated = {} /\ islandSaved = {}
    /\ IF transferred THEN ref = {slackCur} /\ slackOrig = Slack
                      ELSE ref = {Slack}
    /\ pc = "set" => qgSet = {}
    /\ (pc = "set" \/ ~ CAQlim) =>
         isPV = {b \in InitPV : HasOnlineGen(b, genOn)}
    /\ pc = "solved" => mode = "cpu"

BaseInv == pc \notin {"start", "basesolved"} => base = BaseNet

IInv ==
  /\ TypeOK
  /\ SettingsInv
  /\ PVInv
  /\ BetweenInv
  /\ InCaseInv
  /\ BaseInv
  /\ OneReference

-----------------------------------------------------------------------------
(* Min of a non-empty set of naturals is one of its elements and a bound. *)
LEMMA MinIsElement ==
  ASSUME NEW S \in SUBSET Nat, S # {}
  PROVE  Min(S) \in S /\ \A y \in S : Min(S) <= y
<1> DEFINE Below == {0 .. x : x \in S}
<1>1. Below \subseteq FiniteSubsetsOf(Nat)
  <2> SUFFICES ASSUME NEW x \in S PROVE 0 .. x \in FiniteSubsetsOf(Nat)
    OBVIOUS
  <2>1. IsFiniteSet(0 .. x)
    BY FS_Interval
  <2>2. (0 .. x) \in SUBSET Nat
    OBVIOUS
  <2> QED
    BY <2>1, <2>2 DEF FiniteSubsetsOf
<1>2. IsWellFoundedOn(StrictSubsetOrdering(Nat), FiniteSubsetsOf(Nat))
  BY FS_StrictSubsetOrderingWellFounded
<1>3. PICK b \in Below : \A c \in Below : <<c, b>> \notin StrictSubsetOrdering(Nat)
  <2>1. Below # {}
    OBVIOUS
  <2> HIDE DEF Below
  <2> QED
    BY <1>1, <1>2, <2>1, WFMin
<1>4. PICK x \in S : b = 0 .. x
  OBVIOUS
<1>5. \A y \in S : x <= y
  <2> SUFFICES ASSUME NEW y \in S, y < x PROVE FALSE
    OBVIOUS
  <2>1. 0 .. y \in Below /\ x \in 0 .. x /\ x \notin 0 .. y
    OBVIOUS
  <2>2. (0 .. y) \subseteq (0 .. x) /\ (0 .. y) # (0 .. x)
    BY <2>1
  <2>3. <<0 .. y, 0 .. x>> \in StrictSubsetOrdering(Nat)
    BY <2>2 DEF StrictSubsetOrdering
  <2> QED
    BY <1>3, <1>4, <2>1, <2>3
<1> QED
  BY <1>5 DEF Min

(* Min of a singleton is its element. *)
LEMMA MinOfOne ==
  ASSUME NEW b \in Nat
  PROVE  Min({b}) = b
  BY MinIsElement

(* There are finitely many islands. *)
LEMMA IslandsAreFinite ==
  ASSUME NEW on, NEW active \in SUBSET Bus
  PROVE  IsFiniteSet(IslandsOf(on, active))
<1>1. IsFiniteSet(Bus)
  <2>1. 1 \in Int /\ NBus \in Int
    BY NetworkAssumption
  <2> QED
    BY <2>1, FS_Interval DEF Bus
<1>2. IsFiniteSet(active)
  BY <1>1, FS_Subset
<1> DEFINE f == [b \in active |-> Reach(b, on, active)]
<1>3. f \in Surjection(active, IslandsOf(on, active))
  BY DEF IslandsOf, Surjection
<1> QED
  BY <1>2, <1>3, FS_Surjection

(* The number of islands is a natural number. *)
LEMMA IslandCountIsNat ==
  ASSUME NEW on, NEW active \in SUBSET Bus
  PROVE  Cardinality(IslandsOf(on, active)) \in Nat
  BY IslandsAreFinite, FS_CardinalityType

-----------------------------------------------------------------------------
(* The initial state satisfies the invariant. *)
LEMMA InitEstablishes ==
  ASSUME QlimAgrees, Init
  PROVE  IInv
<1> USE NetworkAssumption, EventsAssumption DEF Init
<1>1. TypeOK
  <2>1. InitPV \subseteq Bus
    BY DEF Bus
  <2>2. qlim \in BOOLEAN \X BOOLEAN
    OBVIOUS
  <2>3. transferred \in BOOLEAN /\ found \in BOOLEAN
    BY Zenon
  <2> QED
    BY <2>1, <2>2, <2>3 DEF TypeOK, NoEvent
<1>2. SettingsInv
  BY DEF QlimAgrees, SettingsInv, PFQlim, CAQlim
<1>3. PVInv
  BY DEF PVInv, PVHasGenerator, HasOnlineGen
<1>4. BetweenInv
  BY DEF BetweenInv, NothingToUndo
<1>5. InCaseInv /\ BaseInv
  BY DEF InCaseInv, BaseInv
<1>6. OneReference
  BY DEF OneReference
<1> QED
  BY <1>1, <1>2, <1>3, <1>4, <1>5, <1>6 DEF IInv

(* A PV bus loses that flag exactly with its last generator in service.    *)
LEMMA LosesPVIsLastGen ==
  ASSUME NEW off, PVHasGenerator
  PROVE  isPV \ LosesPV(off) = {b \in isPV : HasOnlineGen(b, genOn \ off)}
  BY DEF PVHasGenerator, LosesPV, HasOnlineGen

(* In the base case the PV buses are those load() made PV. *)
LEMMA ClearQlimRestores ==
  ASSUME PVInv, CAQlim, genOn = InitGenOn, ClearQlim
  PROVE  isPV' = InitPV /\ qgSet' = {}
<1>1. \A b \in InitPV : HasOnlineGen(b, genOn) /\ b \in Bus
  BY NetworkAssumption DEF HasOnlineGen
<1>2. \A b \in Bus : HasOnlineGen(b, genOn) => (b \in save2isPV <=> b \in InitPV)
  BY DEF PVInv
<1>3. \A b \in Bus : ~ HasOnlineGen(b, genOn) => b \notin isPV
  BY DEF PVInv, PVHasGenerator
<1> QED
  BY <1>1, <1>2, <1>3 DEF ClearQlim

(* What solve() may do to the PV buses. *)
LEMMA SolveKeepsPV ==
  ASSUME IInv, NoControllers, NEW checked \in BOOLEAN,
         NEW conv \in SUBSET isPV, NEW by \in SUBSET Controllers,
         SolveEffect(checked, conv, by)
  PROVE  /\ saveisPV' = InitPV /\ save2isPV' = InitPV
         /\ isPV' \subseteq isPV
         /\ qgSet' \subseteq Gen
         /\ moved' = {}
         /\ ~ CAQlim => isPV' = isPV /\ qgSet' = {}
<1> USE DEF IInv, PVInv, SettingsInv, TypeOK, SolveEffect, NoControllers
<1>1. CASE checked
  BY <1>1 DEF CheckQlim
<1>2. CASE ~ checked
  BY <1>2 DEF pvVars
<1> QED
  BY <1>1, <1>2

-----------------------------------------------------------------------------
LEMMA BaseSolvePreserves ==
  ASSUME IInv, NoControllers, BaseSolve
  PROVE  IInv'
<1> USE DEF IInv, BaseSolve
<1>1. PICK conv \in SUBSET isPV, by \in SUBSET Controllers :
        SolveEffect(PFQlim \/ CAQlim, conv, by)
  OBVIOUS
<1>2. /\ saveisPV' = InitPV /\ save2isPV' = InitPV
      /\ isPV' \subseteq isPV
      /\ qgSet' \subseteq Gen
      /\ moved' = {}
      /\ ~ CAQlim => isPV' = isPV /\ qgSet' = {}
  <2>1. (PFQlim \/ CAQlim) \in BOOLEAN
    OBVIOUS
  <2> QED
    BY <1>1, <2>1, SolveKeepsPV
<1>3. TypeOK'
  BY <1>2 DEF TypeOK, PVInv, undoVars
<1>4. SettingsInv'
  BY <1>2 DEF SettingsInv, PFQlim, CAQlim
<1>5. PVInv'
  BY <1>2 DEF PVInv, PVHasGenerator, HasOnlineGen
<1>6. BetweenInv'
  BY <1>2 DEF BetweenInv, NothingToUndo, CAQlim, undoVars
<1>7. InCaseInv' /\ BaseInv' /\ OneReference'
  BY DEF InCaseInv, BaseInv, OneReference
<1> QED
  BY <1>3, <1>4, <1>5, <1>6, <1>7

LEMMA BaseDonePreserves ==
  ASSUME IInv, BaseDone
  PROVE  IInv'
<1> USE DEF IInv, BaseDone
<1>1. isPV' = InitPV /\ qgSet' = {}
  <2>1. CASE CAQlim
    BY <2>1, ClearQlimRestores DEF BetweenInv
  <2>2. CASE ~ CAQlim
    BY <2>2 DEF ClearQlim, BetweenInv, SettingsInv
  <2> QED
    BY <2>1, <2>2
<1>2. TypeOK'
  BY <1>1 DEF TypeOK, PVInv, undoVars, netVars
<1>3. SettingsInv'
  BY <1>1 DEF SettingsInv, PFQlim, CAQlim, netVars
<1>4. PVInv'
  <2>1. \A b \in InitPV : \E g \in genOn : GenBus[g] = b
    BY NetworkAssumption DEF BetweenInv
  <2> QED
    BY <1>1, <2>1 DEF PVInv, PVHasGenerator, HasOnlineGen, netVars
<1>5. BetweenInv'
  BY <1>1 DEF BetweenInv, NothingToUndo, CAQlim, undoVars, netVars
<1>6. BaseInv'
  BY <1>1 DEF BaseInv, BaseNet, Network, BetweenInv, SettingsInv, netVars
<1>7. InCaseInv' /\ OneReference'
  BY DEF InCaseInv, OneReference, netVars
<1> QED
  BY <1>2, <1>3, <1>4, <1>5, <1>6, <1>7

LEMMA SolvePreserves ==
  ASSUME IInv, NoControllers, Solve
  PROVE  IInv'
<1> USE DEF IInv, Solve
<1>1. PICK checked \in BOOLEAN, conv \in SUBSET isPV, by \in SUBSET Controllers :
        SolveEffect(checked, conv, by)
  OBVIOUS
<1>2. /\ saveisPV' = InitPV /\ save2isPV' = InitPV
      /\ isPV' \subseteq isPV
      /\ qgSet' \subseteq Gen
      /\ moved' = {}
      /\ ~ CAQlim => isPV' = isPV /\ qgSet' = {}
  BY <1>1, SolveKeepsPV
<1>3. TypeOK'
  BY <1>2 DEF TypeOK, PVInv, undoVars
<1>4. SettingsInv'
  BY <1>2 DEF SettingsInv, PFQlim, CAQlim
<1>5. PVInv'
  BY <1>2 DEF PVInv, PVHasGenerator, HasOnlineGen
<1>6. InCaseInv'
  BY <1>2 DEF InCaseInv, CAQlim, undoVars, HasOnlineGen
<1>7. BetweenInv' /\ BaseInv' /\ OneReference'
  BY DEF BetweenInv, BaseInv, OneReference
<1> QED
  BY <1>3, <1>4, <1>5, <1>6, <1>7

LEMMA EndCasePreserves ==
  ASSUME IInv, EndCase
  PROVE  IInv'
<1> USE DEF IInv, EndCase, CaseOver
<1>1. isPV' = InitPV /\ qgSet' = {}
  <2>1. CASE CAQlim
    BY <2>1, ClearQlimRestores DEF BetweenInv
  <2>2. CASE ~ CAQlim
    BY <2>2 DEF ClearQlim, BetweenInv, SettingsInv
  <2> QED
    BY <2>1, <2>2
<1>2. TypeOK'
  <2>1. found' \in BOOLEAN
    BY Zenon
  <2> QED
    BY <1>1, <2>1 DEF TypeOK, PVInv, netVars, NoEvent
<1>3. SettingsInv'
  BY <1>1 DEF SettingsInv, PFQlim, CAQlim, netVars
<1>4. PVInv'
  <2>1. \A b \in InitPV : \E g \in genOn : GenBus[g] = b
    BY NetworkAssumption DEF BetweenInv
  <2> QED
    BY <1>1, <2>1 DEF PVInv, PVHasGenerator, HasOnlineGen, netVars
<1>5. BetweenInv'
  BY <1>1 DEF BetweenInv, NothingToUndo, CAQlim, netVars
<1>6. InCaseInv' /\ BaseInv' /\ OneReference'
  BY DEF InCaseInv, BaseInv, OneReference, netVars
<1> QED
  BY <1>2, <1>3, <1>4, <1>5, <1>6

LEMMA ScreenCasePreserves ==
  ASSUME IInv, NoControllers, ScreenCase
  PROVE  IInv'
<1> USE DEF IInv, ScreenCase
<1>1. PICK conv \in SUBSET isPV, by \in SUBSET Controllers :
        /\ IF CAQlim THEN CheckQlim(conv) ELSE UNCHANGED pvVars
        /\ moved' = moved \cup by
  OBVIOUS
<1>2. /\ saveisPV' = InitPV /\ save2isPV' = InitPV
      /\ isPV' \subseteq isPV
      /\ qgSet' \subseteq Gen
      /\ moved' = {}
      /\ ~ CAQlim => isPV' = isPV /\ qgSet' = {}
  BY <1>1 DEF CheckQlim, pvVars, PVInv, SettingsInv, NoControllers, TypeOK
<1>3. TypeOK'
  BY <1>2 DEF TypeOK, PVInv, undoVars
<1>4. SettingsInv'
  BY <1>2 DEF SettingsInv, PFQlim, CAQlim
<1>5. PVInv'
  BY <1>2 DEF PVInv, PVHasGenerator, HasOnlineGen
<1>6. BetweenInv'
  BY <1>2 DEF BetweenInv, NothingToUndo, CAQlim, undoVars
<1>7. InCaseInv' /\ BaseInv' /\ OneReference'
  BY DEF InCaseInv, BaseInv, OneReference
<1> QED
  BY <1>3, <1>4, <1>5, <1>6, <1>7

LEMMA EndScreenPreserves ==
  ASSUME IInv, EndScreen
  PROVE  IInv'
<1> USE DEF IInv, EndScreen
<1>1. isPV' = InitPV /\ qgSet' = {} /\ moved' = {}
  <2>1. CASE CAQlim
    BY <2>1, ClearQlimRestores DEF BetweenInv, SettingsInv
  <2>2. CASE ~ CAQlim
    BY <2>2 DEF ClearQlim, BetweenInv, SettingsInv
  <2> QED
    BY <2>1, <2>2
<1>2. TypeOK'
  BY <1>1 DEF TypeOK, PVInv, undoVars
<1>3. SettingsInv'
  BY <1>1 DEF SettingsInv, PFQlim, CAQlim
<1>4. PVInv'
  <2>1. \A b \in InitPV : \E g \in genOn : GenBus[g] = b
    BY NetworkAssumption DEF BetweenInv
  <2> QED
    BY <1>1, <2>1 DEF PVInv, PVHasGenerator, HasOnlineGen
<1>5. BetweenInv'
  BY <1>1 DEF BetweenInv, NothingToUndo, CAQlim, undoVars
<1>6. InCaseInv' /\ BaseInv' /\ OneReference'
  BY DEF InCaseInv, BaseInv, OneReference
<1> QED
  BY <1>1, <1>2, <1>3, <1>4, <1>5, <1>6

-----------------------------------------------------------------------------
(* The elements of an event are lines only or generators only. *)
LEMMA EventElements ==
  ASSUME NEW e \in Events
  PROVE  \/ e.kind = "Branch" /\ e.elems \subseteq Line
            /\ e.elems \cap Gen = {}
         \/ e.kind = "Generator" /\ e.elems \subseteq Gen
            /\ e.elems \cap Line = {}
  BY NetworkAssumption, EventsAssumption

LEMMA SetContingencyPreserves ==
  ASSUME IInv, NEW e \in Events, NEW m \in {"cpu", "overlay", "probe"},
         SetContingency(e, m)
  PROVE  IInv'
<1> DEFINE lOn == lineOn \ e.elems
           gOn == genOn \ e.elems
           alone == LoneBuses(lOn, isolated)
           iso1 == isolated \cup alone
           old == Min(ref)
           cands == Candidates(gOn, iso1)
           stays == HasOnlineGen(old, gOn)
           new == IF stays \/ cands = {} THEN old ELSE Min(cands)
           active == Bus \ iso1
           islands == IslandsOf(lOn, active)
           small == IF Cardinality(islands) <= 1 THEN {}
                    ELSE active \ MainIsland(islands)
<1>1. /\ pc = "idle" /\ pc' = "set" /\ event' = e /\ mode' = m
      /\ lineOn' = lOn /\ genOn' = gOn
      /\ saved' = e.elems \cap (lineOn \cup genOn)
      /\ UNCHANGED <<save2isPV, qgSet, moved, qlim, base>>
  BY DEF SetContingency
<1>2. /\ isPV' = isPV \ LosesPV(e.elems)
      /\ saveisPV' = saveisPV \cup LosesPV(e.elems)
  BY DEF SetContingency
<1>3. /\ lone' = alone /\ loneSaved' = alone \cap isolated
      /\ isolated' = iso1 \cup small
      /\ islandCount' = Cardinality(islands)
      /\ IF Cardinality(islands) <= 1
         THEN islandSaved' = {} /\ island' = island
         ELSE island' = small /\ islandSaved' = small \cap iso1
  BY DEF SetContingency
<1>4. /\ slackOrig' = old
      /\ IF stays
         THEN transferred' = FALSE /\ slackCur' = old
         ELSE IF cands # {}
              THEN transferred' = TRUE /\ slackCur' = new
              ELSE transferred' = transferred /\ slackCur' = slackCur
      /\ ref' = (ref \ {old}) \cup {new}
      /\ found' = (~ e.missing /\ (stays \/ cands # {}))
  BY DEF SetContingency
<1>5. /\ lineOn = InitLineOn /\ genOn = InitGenOn
      /\ isolated = InitIsolated /\ ref = {Slack}
      /\ NothingToUndo
      /\ isPV = InitPV /\ qgSet = {}
  BY <1>1 DEF IInv, BetweenInv
(* isolation *)
<1>6. alone \subseteq Bus \ isolated /\ small \subseteq Bus \ iso1
  BY DEF LoneBuses
<1>7. /\ loneSaved' = {} /\ islandSaved' = {}
      /\ island' = small
      /\ isolated' = InitIsolated \cup lone' \cup island'
      /\ lone' \cap InitIsolated = {} /\ island' \cap InitIsolated = {}
      /\ lone' \subseteq Bus /\ island' \subseteq Bus
  <2> HIDE DEF alone, islands, active
  <2>1. island' = small /\ islandSaved' = {}
    BY <1>3, <1>5, <1>6 DEF NothingToUndo
  <2> QED
    BY <1>3, <1>5, <1>6, <2>1
<1>8. Cardinality(islands) \in Nat
  BY IslandCountIsNat
(* the reference bus *)
<1>9. old = Slack /\ old \in Bus
  BY <1>5, MinOfOne, NetworkAssumption DEF Bus
<1>10. cands # {} => Min(cands) \in Bus
  <2>1. cands \in SUBSET Nat /\ cands \subseteq Bus
    BY DEF Candidates, Bus
  <2> HIDE DEF cands
  <2> QED
    BY <2>1, MinIsElement
<1>11. /\ new \in Bus /\ ref' = {new}
       /\ IF transferred' THEN ref' = {slackCur'} /\ slackOrig' = Slack
                          ELSE ref' = {Slack}
       /\ transferred' \in BOOLEAN
       /\ slackOrig' \in Bus \cup {-1} /\ slackCur' \in Bus \cup {-1}
  <2> HIDE DEF cands, stays, old
  <2> QED
    BY <1>4, <1>5, <1>9, <1>10 DEF NothingToUndo, IInv, TypeOK
(* PV and PQ *)
<1>12. /\ isPV' = {b \in InitPV : HasOnlineGen(b, genOn')}
       /\ LosesPV(e.elems) \subseteq InitPV
  BY <1>1, <1>2, <1>5, LosesPVIsLastGen DEF IInv, PVInv, LosesPV
<1>13. TypeOK'
  <2>1. found' \in BOOLEAN
    <3>1. (~ e.missing /\ (stays \/ cands # {})) \in BOOLEAN
      BY Zenon
    <3> QED
      BY <1>4, <3>1
  <2>2. /\ isPV' \subseteq Bus /\ saveisPV' \subseteq Bus /\ save2isPV' \subseteq Bus
        /\ lineOn' \subseteq Line /\ genOn' \subseteq Gen
    BY <1>1, <1>2, <1>12 DEF IInv, TypeOK, PVInv
  <2>3. saved' \subseteq event'.elems /\ event' \in Events
    BY <1>1
  <2>4. isolated' \subseteq Bus /\ ref' \subseteq Bus
    BY <1>7, <1>11, NetworkAssumption
  <2>5. islandCount' \in Nat
    BY <1>3, <1>8
  <2> HIDE DEF alone, islands, active, cands, stays, old, new
  <2> QED
    BY <1>1, <1>7, <1>11, <2>1, <2>2, <2>3, <2>4, <2>5 DEF IInv, TypeOK
<1>14. SettingsInv'
  BY <1>1 DEF IInv, SettingsInv, PFQlim, CAQlim
<1>15. PVInv'
  BY <1>1, <1>2, <1>12 DEF IInv, PVInv, PVHasGenerator
<1>16. InCaseInv'
  <2> HIDE DEF alone, islands, active, cands, stays, old, new
  <2> QED
    BY <1>1, <1>5, <1>7, <1>11, <1>12 DEF InCaseInv
<1>17. BetweenInv' /\ BaseInv' /\ OneReference'
  BY <1>1, <1>11 DEF IInv, BetweenInv, BaseInv, OneReference
<1> QED
  BY <1>13, <1>14, <1>15, <1>16, <1>17 DEF IInv

LEMMA UnSetContingencyPreserves ==
  ASSUME IInv, UnSetContingency
  PROVE  IInv'
<1>1. pc \in {"set", "solved"} /\ pc' \in {"idle", "unset"}
  BY DEF UnSetContingency, RestoreSlack
<1>2. /\ event \in Events
      /\ saved = event.elems \cap (InitLineOn \cup InitGenOn)
      /\ lineOn = InitLineOn \ event.elems
      /\ genOn = InitGenOn \ event.elems
  BY <1>1 DEF IInv, InCaseInv
<1>3. lineOn' = InitLineOn /\ genOn' = InitGenOn
  BY <1>2, EventElements, NetworkAssumption DEF UnSetContingency, RestoreSlack
<1>4. isolated' = InitIsolated /\ NothingToUndo'
  BY <1>1 DEF IInv, InCaseInv, RestoreSlack, UnSetContingency, NothingToUndo
<1>5. ref' = {Slack}
  BY <1>1 DEF IInv, InCaseInv, RestoreSlack, UnSetContingency
<1>6. isPV' \subseteq InitPV /\ isPV \subseteq isPV'
  BY DEF IInv, PVInv, RegainsPV, UnSetContingency
<1>7. (pc = "set" \/ ~ CAQlim) => isPV' = InitPV
  <2> SUFFICES ASSUME pc = "set" \/ ~ CAQlim, NEW b \in InitPV, b \notin isPV
               PROVE  b \in isPV'
    BY <1>6
  <2>1. PICK g \in InitGenOn : GenBus[g] = b
    BY NetworkAssumption
  <2>2. ~ HasOnlineGen(b, genOn)
    BY <1>1 DEF IInv, InCaseInv
  <2>3. g \in event.elems /\ g \notin genOn
    BY <1>2, <2>1, <2>2 DEF HasOnlineGen
  <2>4. g \in saved /\ event.kind = "Generator"
    BY <1>2, <2>1, <2>3, EventElements, NetworkAssumption
  <2>5. b \in RegainsPV(saved)
    BY <2>1, <2>3, <2>4 DEF RegainsPV, IInv, PVInv
  <2> QED
    BY <2>4, <2>5 DEF UnSetContingency, RestoreSlack
<1>8. /\ pc' = "idle" => pc = "set"
      /\ UNCHANGED <<saveisPV, save2isPV, qgSet, slackOrig, qlim, base>>
      /\ moved' = {}
  BY <1>1 DEF IInv, InCaseInv, SettingsInv, RestoreSlack, UnSetContingency
<1>9. TypeOK'
  <2>1. /\ event' \in Events \cup {NoEvent} /\ found' \in BOOLEAN
        /\ mode' \in {"none", "cpu", "overlay", "probe"}
        /\ saved' \subseteq event'.elems
    <3>1. CASE mode = "probe"
      <4>1. found' = FALSE /\ event' = NoEvent /\ saved' = {} /\ mode' = "none"
        BY <3>1 DEF UnSetContingency, RestoreSlack, CaseOver
      <4>2. found' \in BOOLEAN
        BY <4>1, Zenon
      <4> QED
        BY <4>1, <4>2
    <3>2. CASE mode # "probe"
      BY <3>2 DEF UnSetContingency, RestoreSlack, IInv, TypeOK
    <3> QED
      BY <3>1, <3>2
  <2>2. slackCur' \in Bus \cup {-1} /\ islandCount' = 0 /\ transferred' = FALSE
    BY DEF UnSetContingency, RestoreSlack, IInv, TypeOK
  <2>3. transferred' \in BOOLEAN
    BY <2>2, Zenon
  <2> QED
    BY <1>1, <1>3, <1>4, <1>5, <1>6, <1>8, <2>1, <2>2, <2>3, NetworkAssumption
      DEF IInv, TypeOK, NothingToUndo, PVInv
<1>10. SettingsInv'
  BY <1>8 DEF IInv, SettingsInv, PFQlim, CAQlim
<1>11. PVInv'
  <2>1. \A b \in InitPV : \E g \in genOn' : GenBus[g] = b
    BY <1>3, NetworkAssumption
  <2> QED
    BY <1>6, <1>8, <2>1 DEF IInv, PVInv, PVHasGenerator, HasOnlineGen
<1>12. BetweenInv'
  <2>1. pc' = "idle" => isPV' = InitPV /\ qgSet' = {}
    BY <1>1, <1>7, <1>8 DEF IInv, InCaseInv
  <2>2. ~ CAQlim' => isPV' = InitPV
    BY <1>7, <1>8 DEF CAQlim
  <2> QED
    BY <1>3, <1>4, <1>5, <2>1, <2>2 DEF BetweenInv
<1>13. InCaseInv' /\ BaseInv' /\ OneReference'
  BY <1>1, <1>5, <1>8, NetworkAssumption DEF IInv, InCaseInv, BaseInv, OneReference
<1> QED
  BY <1>9, <1>10, <1>11, <1>12, <1>13 DEF IInv

-----------------------------------------------------------------------------
(* The invariant is inductive, if the two Q-limit settings agree and no    *)
(* controller is enabled.                                                  *)
THEOREM Inductive ==
  ASSUME QlimAgrees, NoControllers
  PROVE  Spec => []IInv
<1>1. Init => IInv
  BY InitEstablishes
<1>2. IInv /\ [Next]_vars => IInv'
  <2> SUFFICES ASSUME IInv, [Next]_vars PROVE IInv'
    OBVIOUS
  <2>1. CASE BaseSolve
    BY <2>1, BaseSolvePreserves
  <2>2. CASE BaseDone
    BY <2>2, BaseDonePreserves
  <2>3. CASE \E e \in Events, m \in {"cpu", "overlay", "probe"} :
               SetContingency(e, m)
    BY <2>3, SetContingencyPreserves
  <2>4. CASE Solve
    BY <2>4, SolvePreserves
  <2>5. CASE UnSetContingency
    BY <2>5, UnSetContingencyPreserves
  <2>6. CASE EndCase
    BY <2>6, EndCasePreserves
  <2>7. CASE ScreenCase
    BY <2>7, ScreenCasePreserves
  <2>8. CASE EndScreen
    BY <2>8, EndScreenPreserves
  <2>9. CASE UNCHANGED vars
    BY <2>9 DEF IInv, TypeOK, SettingsInv, PVInv, PVHasGenerator, BetweenInv,
                InCaseInv, BaseInv, OneReference, NothingToUndo, HasOnlineGen,
                PFQlim, CAQlim, vars, netVars, pvVars, undoVars
  <2> QED
    BY <2>1, <2>2, <2>3, <2>4, <2>5, <2>6, <2>7, <2>8, <2>9 DEF Next
<1> QED
  BY <1>1, <1>2, PTL DEF Spec

(* Every variable stays in its type: the indices of the undo information   *)
(* are buses, the saved flags belong to them.                              *)
THEOREM TypeCorrect ==
  ASSUME QlimAgrees, NoControllers
  PROVE  Spec => []TypeOK
<1>1. IInv => TypeOK
  BY DEF IInv
<1> QED
  BY <1>1, Inductive, PTL

(* unSetContingency and clearQlimViolations undo every case and every      *)
(* probe: between two cases the network is that of the base case.          *)
THEOREM ReturnsToBaseHolds ==
  ASSUME QlimAgrees, NoControllers
  PROVE  Spec => []ReturnsToBase
<1>1. IInv => ReturnsToBase
  BY DEF IInv, BetweenInv, BaseInv, BaseNet, SettingsInv, ReturnsToBase, Network
<1> QED
  BY <1>1, Inductive, PTL

(* checkAndTransferSlack and restoreSlack keep exactly one reference bus.  *)
THEOREM OneReferenceHolds ==
  ASSUME QlimAgrees, NoControllers
  PROVE  Spec => []OneReference
<1>1. IInv => OneReference
  BY DEF IInv
<1> QED
  BY <1>1, Inductive, PTL

(* setGenStatus, chkQlim and clearQlim never leave a bus PV that has no    *)
(* generator in service.                                                   *)
THEOREM PVHasGeneratorHolds ==
  ASSUME QlimAgrees, NoControllers
  PROVE  Spec => []PVHasGenerator
<1>1. IInv => PVHasGenerator
  BY DEF IInv, PVInv
<1> QED
  BY <1>1, Inductive, PTL

-----------------------------------------------------------------------------
(* Solving on one connected network.                                       *)

(* However the active buses are divided in two, a line joins the parts.    *)
Connected(on, active) ==
  \A part \in SUBSET active :
    part # {} /\ part # active =>
      \E l \in on : /\ Ends[l] \subseteq active
                    /\ Ends[l] \cap part # {} /\ Ends[l] \ part # {}

(* A count of at most one island means that the network is connected, and  *)
(* nothing changes the network before the case is solved.                  *)
ConnInv ==
  /\ pc \in {"set", "solved"} /\ islandCount <= 1 =>
       Connected(lineOn, Bus \ isolated)
  /\ pc = "solved" => islandCount <= 1

(* A bus is in the island the search from it finds. *)
LEMMA ReachBegins ==
  ASSUME NEW on, NEW active, NEW b \in active
  PROVE  b \in Reach(b, on, active)
  BY DEF Reach

(* The search does not cross to the other part if no line does. *)
LEMMA ReachStays ==
  ASSUME NEW on, NEW active, NEW part \in SUBSET active, NEW b \in part,
         \A l \in on : Ends[l] \subseteq active /\ Ends[l] \cap part # {} =>
                         Ends[l] \subseteq part
  PROVE  Reach(b, on, active) \subseteq part
<1>1. Neighbours(part, on, active) \subseteq part
  BY DEF Neighbours
<1> QED
  BY <1>1 DEF Reach

(* If the search finds at most one island, no division leaves the parts    *)
(* without a line between them.                                            *)
LEMMA OneIslandIsConnected ==
  ASSUME NEW on, NEW active \in SUBSET Bus,
         Cardinality(IslandsOf(on, active)) <= 1
  PROVE  Connected(on, active)
<1>1. \A b, c \in active : Reach(b, on, active) = Reach(c, on, active)
  <2>1. IsFiniteSet(IslandsOf(on, active))
    BY IslandsAreFinite
  <2>2. Cardinality(IslandsOf(on, active)) \in {0, 1}
    BY IslandCountIsNat
  <2>3. IslandsOf(on, active) = {} \/ \E x : IslandsOf(on, active) = {x}
    <3> DEFINE I == IslandsOf(on, active)
    <3> HIDE DEF I
    <3>1. CASE Cardinality(I) = 0
      BY <2>1, <3>1, FS_EmptySet DEF I
    <3>2. CASE Cardinality(I) = 1
      BY <2>1, <3>2, FS_Singleton DEF I
    <3> QED
      BY <2>2, <3>1, <3>2 DEF I
  <2>4. \A b \in active : Reach(b, on, active) \in IslandsOf(on, active)
    BY DEF IslandsOf
  <2> QED
    BY <2>3, <2>4
<1>2. SUFFICES ASSUME NEW part \in SUBSET active, part # {}, part # active,
                      ~ \E l \in on : /\ Ends[l] \subseteq active
                                      /\ Ends[l] \cap part # {}
                                      /\ Ends[l] \ part # {}
               PROVE  FALSE
  BY DEF Connected
<1>3. PICK b \in part : TRUE
  BY <1>2
<1>4. PICK c \in active : c \notin part
  BY <1>2
<1>5. Reach(b, on, active) \subseteq part
  BY <1>2, ReachStays
<1>6. c \in Reach(c, on, active)
  BY ReachBegins
<1> QED
  BY <1>1, <1>4, <1>5, <1>6

(* setContingency counts the islands of exactly the network it leaves: if  *)
(* there is no second one it isolates nothing more.                        *)
LEMMA SetContingencyConnects ==
  ASSUME NEW e \in Events, NEW m \in {"cpu", "overlay", "probe"},
         SetContingency(e, m), islandCount' <= 1
  PROVE  Connected(lineOn, Bus \ isolated)'
<1> DEFINE lOn == lineOn \ e.elems
           iso == isolated \cup LoneBuses(lOn, isolated)
           active == Bus \ iso
<1>1. lineOn' = lOn /\ islandCount' = Cardinality(IslandsOf(lOn, active))
  BY DEF SetContingency
<1>2. isolated' = iso
  <2>1. isolated' = iso \cup (IF Cardinality(IslandsOf(lOn, active)) <= 1 THEN {}
                              ELSE active \ MainIsland(IslandsOf(lOn, active)))
    BY DEF SetContingency
  <2> QED
    BY <1>1, <2>1
<1>3. Connected(lOn, active)
  BY <1>1, OneIslandIsConnected
<1> QED
  BY <1>1, <1>2, <1>3 DEF Connected

(* The invariant holds for every network, every list of events and every   *)
(* setting of the Q limits and controllers.                                *)
THEOREM ConnectedInductive == Spec => []ConnInv
<1>1. Init => ConnInv
  BY DEF Init, ConnInv
<1>2. ConnInv /\ [Next]_vars => ConnInv'
  <2> SUFFICES ASSUME ConnInv, [Next]_vars PROVE ConnInv'
    OBVIOUS
  <2>1. CASE \/ BaseSolve \/ BaseDone \/ UnSetContingency \/ EndCase
             \/ ScreenCase \/ EndScreen
    <3>1. pc' \notin {"set", "solved"}
      BY <2>1 DEF BaseSolve, BaseDone, UnSetContingency, EndCase, ScreenCase,
                  EndScreen
    <3> QED
      BY <3>1 DEF ConnInv
  <2>2. CASE \E e \in Events, m \in {"cpu", "overlay", "probe"} :
               SetContingency(e, m)
    <3>1. PICK e \in Events, m \in {"cpu", "overlay", "probe"} :
            SetContingency(e, m)
      BY <2>2
    <3>2. pc' = "set"
      BY <3>1 DEF SetContingency
    <3>3. islandCount' <= 1 => Connected(lineOn, Bus \ isolated)'
      BY <3>1, SetContingencyConnects
    <3> QED
      BY <3>2, <3>3 DEF ConnInv, Connected
  <2>3. CASE Solve
    <3>1. UNCHANGED <<lineOn, isolated, islandCount>> /\ islandCount <= 1
          /\ pc = "set"
      BY <2>3 DEF Solve, Solvable, undoVars
    <3> QED
      BY <3>1 DEF ConnInv, Connected
  <2>4. CASE UNCHANGED vars
    BY <2>4 DEF vars, netVars, undoVars, ConnInv, Connected
  <2> QED
    BY <2>1, <2>2, <2>3, <2>4 DEF Next
<1> QED
  BY <1>1, <1>2, PTL DEF Spec

(* The driver solves a case only if its network is in one piece: the       *)
(* search counts the islands of the lines in service, and the buses that   *)
(* checkLoneBus and detectIslands isolated take no part.                   *)
THEOREM SolvedIfConnectedHolds == Spec => []SolvedIfConnected
<1>1. ConnInv => SolvedIfConnected
  BY DEF ConnInv, Connected, SolvedIfConnected
<1> QED
  BY <1>1, ConnectedInductive, PTL

=============================================================================
