--------------------------- MODULE PFSolveProofs ---------------------------
(***************************************************************************)
(* Proofs about PFSolve, for any bounds on its loops and any number of PV  *)
(* buses.  The inductive invariant says, place by place, what ret, the     *)
(* summary and the moved settings know of each other.                      *)
(***************************************************************************)
EXTENDS PFSolve, TLAPS

(* Inside the Newton loop: nothing has moved, unless stagnation moved it.  *)
NewtonInv ==
  pc = "newton" =>
    /\ conv = NotConverged
    /\ ~ repeat
    /\ ctrlIter >= 1
    /\ stagnant <= StagnantThreshold
    /\ ~ early => changed = {} /\ stagnant < StagnantThreshold
    /\ early => ret /\ changed = {"qlim"} /\ iter >= 1
    /\ tol = "blown" /\ ~ early => ~ ret
    /\ ~ ret => tol = "blown"

(* After the Newton loop the summary says what ret says. *)
SummaryInv ==
  pc \in {"controllers", "push", "interchange", "returned"} =>
    conv.converged = ret

(* The controllers start from a solved system, or from an early exit. *)
ControllersInv ==
  pc = "controllers" =>
    /\ ret
    /\ ~ early => tol = "met" /\ changed = {}
    /\ early => changed = {"qlim"}

(* A pass that is not repeated below the bound moved nothing. *)
DoneInv ==
  pc \in {"push", "interchange", "returned"} /\ ret =>
    /\ ~ repeat /\ ctrlIter < CtrlLimit => tol = "met" /\ changed \subseteq {"pg"}
    /\ pc \in {"push", "interchange"} => "pg" \notin changed
    /\ pc = "returned" /\ aiIter < AreaLimit => "pg" \notin changed

(* Only PushBack and Interchange lead to another pass. *)
RepeatInv ==
  /\ pc \in {"interchange", "returned"} => ~ repeat
  /\ pc = "push" /\ repeat => ret /\ ctrlIter < CtrlLimit
  /\ pc = "pass" => ret /\ ctrlIter < CtrlLimit

FailureInv ==
  ~ ret => /\ changed \subseteq {"qlim"}
           /\ "qlim" \in changed => early /\ iter = MaxIteration

IInv ==
  /\ TypeOK
  /\ NewtonInv
  /\ SummaryInv
  /\ ControllersInv
  /\ DoneInv
  /\ RepeatInv
  /\ FailureInv

-----------------------------------------------------------------------------
(* The larger of two numbers. *)
LEMMA MaxOfTwo ==
  ASSUME NEW a \in Nat, NEW b \in Nat
  PROVE  /\ Max({a, b}) \in {a, b}
         /\ Max({a, b}) >= a /\ Max({a, b}) >= b
<1>1. \E x \in {a, b} : \A y \in {a, b} : x >= y
  <2>1. CASE a >= b
    BY <2>1
  <2>2. CASE b >= a
    BY <2>2
  <2> QED
    BY <2>1, <2>2
<1> QED
  BY <1>1 DEF Max

(* Both loops may turn at least once. *)
LEMMA LimitsArePositive ==
  ASSUME opt \in Options
  PROVE  CtrlLimit \in Nat \ {0} /\ AreaLimit \in Nat \ {0}
<1> DEFINE configured == IF opt.shunt \/ opt.ltc THEN MaxController
                         ELSE IF opt.qlim THEN MaxQlim ELSE 1
<1>1. configured \in Nat /\ LeastPasses \in Nat \ {0}
  BY SolveAssumption
<1>2. CtrlLimit = Max({configured, LeastPasses})
  BY DEF CtrlLimit
<1>3. CtrlLimit \in Nat \ {0}
  <2> HIDE DEF configured
  <2> QED
    BY <1>1, <1>2, MaxOfTwo
<1>4. AreaLimit \in Nat \ {0}
  BY SolveAssumption DEF AreaLimit
<1> QED
  BY <1>3, <1>4

(* The limits are fixed by the options, and no step changes those. *)
LEMMA OptionsStay ==
  ASSUME Next
  PROVE  opt' = opt /\ CtrlLimit' = CtrlLimit /\ AreaLimit' = AreaLimit
<1>1. opt' = opt
  BY DEF Next, StartPass, NewtonStep, EndNewton, Controllers, PushBack,
         Interchange, control
<1> QED
  BY <1>1 DEF CtrlLimit, AreaLimit

LEMMA InitIInv ==
  ASSUME Init
  PROVE  IInv
<1>1. CtrlLimit \in Nat \ {0} /\ AreaLimit \in Nat \ {0}
  BY LimitsArePositive DEF Init
<1>2. TypeOK
  <2>1. ret \in BOOLEAN /\ early \in BOOLEAN /\ repeat \in BOOLEAN
    BY Zenon DEF Init
  <2>2. conv \in [converged : BOOLEAN, iterations : 0 .. MaxIteration]
    BY SolveAssumption DEF Init
  <2>3. /\ aiIter \in 1 .. AreaLimit /\ ctrlIter \in 0 .. CtrlLimit
        /\ iter \in 0 .. MaxIteration /\ stagnant \in 0 .. StagnantThreshold
        /\ pv \in 0 .. NPV /\ mapped \in 0 .. NPV
    BY <1>1, SolveAssumption DEF Init
  <2> QED
    BY <2>1, <2>2, <2>3 DEF Init, TypeOK
<1>3. NewtonInv /\ SummaryInv /\ ControllersInv /\ DoneInv /\ FailureInv
  BY DEF Init, NewtonInv, SummaryInv, ControllersInv, DoneInv, FailureInv
<1>4. RepeatInv
  BY <1>1 DEF Init, RepeatInv
<1> QED
  BY <1>2, <1>3, <1>4 DEF IInv

LEMMA StartPassIInv ==
  ASSUME IInv, StartPass
  PROVE  IInv'
<1>1. /\ CtrlLimit \in Nat \ {0}
      /\ CtrlLimit' = CtrlLimit /\ AreaLimit' = AreaLimit /\ opt' = opt
  BY LimitsArePositive, OptionsStay DEF IInv, TypeOK, Next
<1>2. ctrlIter < CtrlLimit
  BY DEF IInv, RepeatInv, StartPass
<1>3. TypeOK'
  <2>1. ret' \in BOOLEAN /\ early' \in BOOLEAN /\ repeat' \in BOOLEAN
    BY Zenon DEF StartPass, SolverFailure
  <2>2. conv' \in [converged : BOOLEAN, iterations : 0 .. MaxIteration]
    BY SolveAssumption DEF StartPass, ResetSummary, NotConverged
  <2>3. ctrlIter' \in 0 .. CtrlLimit'
    BY <1>1, <1>2 DEF IInv, TypeOK, StartPass
  <2>4. /\ iter' \in 0 .. MaxIteration /\ stagnant' \in 0 .. StagnantThreshold
        /\ mapped' \in 0 .. NPV /\ changed' \subseteq Settings
    BY SolveAssumption DEF IInv, TypeOK, StartPass
  <2>5. /\ aiIter' \in 1 .. AreaLimit' /\ opt' \in Options /\ pv' \in 0 .. NPV
        /\ tol' \in {"met", "high", "blown"}
        /\ pc' \in {"newton", "returned"}
    BY <1>1 DEF IInv, TypeOK, StartPass, SolverFailure
  <2> QED
    BY <2>1, <2>2, <2>3, <2>4, <2>5 DEF TypeOK
<1>4. NewtonInv'
  BY SolveAssumption
     DEF IInv, TypeOK, NewtonInv, StartPass, SolverFailure, ResetSummary
<1>5. SummaryInv'
  BY DEF SummaryInv, StartPass, SolverFailure, ResetSummary, NotConverged
<1>6. ControllersInv' /\ DoneInv' /\ FailureInv'
  BY DEF ControllersInv, DoneInv, FailureInv, StartPass, SolverFailure
<1>7. RepeatInv'
  BY DEF RepeatInv, StartPass, SolverFailure
<1> QED
  BY <1>3, <1>4, <1>5, <1>6, <1>7 DEF IInv

LEMMA NewtonStepIInv ==
  ASSUME IInv, NewtonStep
  PROVE  IInv'
<1> USE DEF control, newton
<1>1. /\ CtrlLimit' = CtrlLimit /\ AreaLimit' = AreaLimit
      /\ UNCHANGED <<opt, aiIter, ctrlIter, mapped, repeat, conv>>
  BY OptionsStay DEF Next, NewtonStep
<1>2. /\ pc = "newton" /\ conv = NotConverged /\ changed = {} /\ ~ repeat
      /\ stagnant < StagnantThreshold /\ ctrlIter >= 1 /\ ret /\ ~ early
      /\ iter < MaxIteration
  BY DEF IInv, NewtonInv, NewtonStep
<1>3. CASE SolverFailure /\ UNCHANGED <<newton, pv, changed>>
  <2>1. TypeOK'
    BY <1>1, <1>3 DEF IInv, TypeOK, SolverFailure
  <2>2. NewtonInv' /\ ControllersInv' /\ DoneInv'
    BY <1>3 DEF NewtonInv, ControllersInv, DoneInv, SolverFailure
  <2>3. SummaryInv'
    BY <1>1, <1>2, <1>3 DEF SummaryInv, SolverFailure, NotConverged
  <2>4. RepeatInv' /\ FailureInv'
    BY <1>1, <1>2, <1>3 DEF RepeatInv, FailureInv, SolverFailure
  <2> QED
    BY <2>1, <2>2, <2>3, <2>4 DEF IInv
<1>4. ASSUME NEW same \in BOOLEAN,
             pc' = pc, iter' = iter + 1, tol' \in {"met", "high", "blown"},
             Stagnates(same), ConvertPV, early' = TRUE,
             stagnant' = stagnant + 1, UNCHANGED ret
      PROVE  IInv'
  <2>1. TypeOK'
    BY <1>1, <1>2, <1>4, SolveAssumption DEF IInv, TypeOK, ConvertPV, Settings
  <2>2. NewtonInv'
    BY <1>1, <1>2, <1>4, SolveAssumption DEF IInv, TypeOK, NewtonInv, ConvertPV
  <2>3. SummaryInv' /\ ControllersInv' /\ DoneInv' /\ RepeatInv' /\ FailureInv'
    BY <1>2, <1>4 DEF SummaryInv, ControllersInv, DoneInv, RepeatInv, FailureInv
  <2> QED
    BY <2>1, <2>2, <2>3 DEF IInv
<1>5. ASSUME NEW same \in BOOLEAN,
             pc' = pc, iter' = iter + 1, tol' \in {"met", "high", "blown"},
             stagnant' = IF Stagnates(same) THEN NoViolation(stagnant + 1)
                         ELSE IF opt.qlim /\ same THEN stagnant + 1 ELSE 0,
             ret' = (tol' # "blown"),
             UNCHANGED <<early, pv, changed>>
      PROVE  IInv'
  <2>1. stagnant' \in 0 .. StagnantThreshold - 1
    <3>1. CASE Stagnates(same)
      BY <1>5, <3>1, SolveAssumption DEF NoViolation
    <3>2. CASE ~ Stagnates(same)
      BY <1>2, <1>5, <3>2, SolveAssumption DEF IInv, TypeOK, Stagnates
    <3> QED
      BY <3>1, <3>2
  <2>2. TypeOK'
    BY <1>1, <1>2, <1>5, <2>1, SolveAssumption DEF IInv, TypeOK
  <2>3. NewtonInv'
    <3>1. stagnant' < StagnantThreshold /\ stagnant' <= StagnantThreshold
      BY <2>1, SolveAssumption
    <3>2. (tol' = "blown" => ~ ret') /\ (~ ret' => tol' = "blown")
      BY <1>5
    <3>3. /\ conv' = NotConverged /\ ~ repeat' /\ ctrlIter' >= 1 /\ ~ early'
          /\ changed' = {}
      BY <1>1, <1>2, <1>5
    <3> QED
      BY <3>1, <3>2, <3>3 DEF NewtonInv, NotConverged
  <2>4. SummaryInv' /\ ControllersInv' /\ DoneInv' /\ RepeatInv' /\ FailureInv'
    BY <1>2, <1>5 DEF SummaryInv, ControllersInv, DoneInv, RepeatInv, FailureInv
  <2> QED
    BY <2>2, <2>3, <2>4 DEF IInv
<1> QED
  BY <1>3, <1>4, <1>5 DEF NewtonStep

LEMMA EndNewtonIInv ==
  ASSUME IInv, EndNewton
  PROVE  IInv'
<1> USE DEF control, newton, network
<1>1. /\ CtrlLimit' = CtrlLimit /\ AreaLimit' = AreaLimit
      /\ UNCHANGED <<opt, aiIter, ctrlIter, iter, stagnant, tol, early, pv,
                     mapped, changed, repeat>>
  BY OptionsStay DEF Next, EndNewton
<1>2. /\ ~ repeat /\ ctrlIter >= 1
      /\ ~ early => changed = {}
      /\ early => ret /\ changed = {"qlim"}
      /\ tol = "blown" /\ ~ early => ~ ret
  BY DEF IInv, NewtonInv, EndNewton
<1>3. /\ ret' = (ret /\ iter < MaxIteration)
      /\ conv' = [converged |-> ret', iterations |-> iter]
      /\ pc' = IF ret' THEN "controllers" ELSE "push"
  BY DEF EndNewton, AfterNewton
<1>4. ret' \in BOOLEAN
  BY <1>3, Zenon DEF IInv, TypeOK
<1>4a. ret' => ret /\ iter < MaxIteration
  BY <1>3
<1>4b. ret /\ ~ ret' => ~ (iter < MaxIteration)
  BY <1>3
<1>5. TypeOK'
  BY <1>1, <1>3, <1>4 DEF IInv, TypeOK
<1>6. NewtonInv' /\ SummaryInv' /\ RepeatInv'
  BY <1>1, <1>2, <1>3, <1>4 DEF NewtonInv, SummaryInv, RepeatInv
<1>7. ControllersInv'
  <2> SUFFICES ASSUME ret'
               PROVE  /\ ~ early => tol = "met" /\ changed = {}
                      /\ early => changed = {"qlim"}
    BY <1>1, <1>3 DEF ControllersInv
  <2>1. ret /\ ~ (iter >= MaxIteration)
    BY <1>4a, SolveAssumption DEF IInv, TypeOK
  <2>2. ~ early => tol # "high" /\ tol # "blown"
    BY <1>2, <2>1 DEF EndNewton
  <2> QED
    BY <1>2, <2>2 DEF IInv, TypeOK
<1>8. DoneInv'
  BY <1>3 DEF DoneInv
<1>9. FailureInv'
  <2> SUFFICES ASSUME ~ ret'
               PROVE  /\ changed' \subseteq {"qlim"}
                      /\ "qlim" \in changed' => early' /\ iter' = MaxIteration
    BY DEF FailureInv
  <2>1. CASE ~ early
    BY <1>1, <1>2, <2>1
  <2>2. CASE early
    <3>1. iter = MaxIteration
      BY <1>2, <1>4b, <2>2, SolveAssumption DEF IInv, TypeOK
    <3> QED
      BY <1>1, <1>2, <2>2, <3>1
  <2> QED
    BY <2>1, <2>2
<1> QED
  BY <1>5, <1>6, <1>7, <1>8, <1>9 DEF IInv

LEMMA ControllersIInv ==
  ASSUME IInv, Controllers
  PROVE  IInv'
<1> USE DEF control, newton
<1>1. /\ CtrlLimit' = CtrlLimit /\ AreaLimit' = AreaLimit
      /\ UNCHANGED <<opt, aiIter, ctrlIter, iter, stagnant, tol, early,
                     mapped, ret, conv>>
      /\ pc = "controllers" /\ pc' = "push"
  BY OptionsStay DEF Next, Controllers
<1>2. /\ ret /\ conv.converged = ret
      /\ ~ early => tol = "met" /\ changed = {}
      /\ early => changed = {"qlim"}
  BY <1>1 DEF IInv, ControllersInv, SummaryInv
<1>3. PICK acted \in SUBSET {"ireg", "qlim", "shunt", "ltc"} :
        /\ IF "qlim" \in acted THEN pv' \in 0 .. pv - 1 ELSE UNCHANGED pv
        /\ changed' = changed \cup acted
        /\ repeat' = (MustRepeat(acted) /\ ctrlIter < CtrlLimit)
  BY DEF Controllers
<1>4. repeat' \in BOOLEAN
  BY <1>3, Zenon
<1>5. pv' \in 0 .. NPV
  BY <1>3, SolveAssumption DEF IInv, TypeOK
<1>6. TypeOK'
  BY <1>1, <1>3, <1>4, <1>5 DEF IInv, TypeOK, Settings
<1>7. NewtonInv' /\ SummaryInv' /\ ControllersInv' /\ FailureInv'
  BY <1>1, <1>2 DEF NewtonInv, SummaryInv, ControllersInv, FailureInv
<1>8. DoneInv'
  BY <1>1, <1>2, <1>3 DEF DoneInv, MustRepeat
<1>9. RepeatInv'
  BY <1>1, <1>2, <1>3 DEF RepeatInv
<1> QED
  BY <1>6, <1>7, <1>8, <1>9 DEF IInv

LEMMA PushBackIInv ==
  ASSUME IInv, PushBack
  PROVE  IInv'
<1> USE DEF control, newton, network
<1>1. /\ CtrlLimit' = CtrlLimit /\ AreaLimit' = AreaLimit
      /\ UNCHANGED <<control, newton, network, ret, repeat, conv>>
      /\ pc = "push" /\ pc' = IF repeat THEN "pass" ELSE "interchange"
  BY OptionsStay DEF Next, PushBack
<1>2. TypeOK'
  BY <1>1 DEF IInv, TypeOK
<1>3. NewtonInv' /\ SummaryInv' /\ ControllersInv' /\ FailureInv'
  BY <1>1 DEF IInv, NewtonInv, SummaryInv, ControllersInv, FailureInv
<1>4. DoneInv' /\ RepeatInv'
  BY <1>1 DEF IInv, DoneInv, RepeatInv
<1> QED
  BY <1>2, <1>3, <1>4 DEF IInv

LEMMA InterchangeIInv ==
  ASSUME IInv, Interchange
  PROVE  IInv'
<1> USE DEF newton
<1>1. /\ CtrlLimit \in Nat \ {0} /\ AreaLimit \in Nat \ {0}
      /\ CtrlLimit' = CtrlLimit /\ AreaLimit' = AreaLimit
      /\ UNCHANGED <<iter, stagnant, tol, early, opt, ret, conv, pv, mapped>>
      /\ pc = "interchange"
  BY LimitsArePositive, OptionsStay DEF Next, Interchange, IInv, TypeOK
<1>2. /\ ~ repeat /\ conv.converged = ret
      /\ ret => /\ ctrlIter < CtrlLimit => tol = "met" /\ changed \subseteq {"pg"}
                /\ "pg" \notin changed
      /\ FailureInv
  BY <1>1 DEF IInv, RepeatInv, SummaryInv, DoneInv
<1>3. CASE /\ ret
           /\ \E moved \in SUBSET {"pg"} : changed' = changed \cup moved
           /\ aiIter < AreaLimit
           /\ pc' = "pass" /\ aiIter' = NextArea(aiIter) /\ ctrlIter' = 0
           /\ repeat' = TRUE
  <2>1. TypeOK'
    BY <1>1, <1>3 DEF IInv, TypeOK, NextArea, Settings
  <2>2. NewtonInv' /\ SummaryInv' /\ ControllersInv' /\ DoneInv' /\ FailureInv'
    BY <1>1, <1>3 DEF NewtonInv, SummaryInv, ControllersInv, DoneInv, FailureInv
  <2>3. RepeatInv'
    BY <1>1, <1>3 DEF RepeatInv
  <2> QED
    BY <2>1, <2>2, <2>3 DEF IInv
<1>4. CASE /\ ret
           /\ \E moved \in SUBSET {"pg"} : changed' = changed \cup moved
           /\ ~ (aiIter < AreaLimit)
           /\ pc' = "returned" /\ UNCHANGED <<aiIter, ctrlIter, repeat>>
  <2>1. TypeOK'
    BY <1>1, <1>4 DEF IInv, TypeOK, Settings
  <2>2. NewtonInv' /\ SummaryInv' /\ ControllersInv' /\ FailureInv' /\ RepeatInv'
    BY <1>1, <1>2, <1>4
       DEF NewtonInv, SummaryInv, ControllersInv, FailureInv, RepeatInv
  <2>3. DoneInv'
    BY <1>1, <1>2, <1>4 DEF DoneInv
  <2> QED
    BY <2>1, <2>2, <2>3 DEF IInv
<1>5. CASE pc' = "returned" /\ UNCHANGED <<changed, aiIter, ctrlIter, repeat>>
  <2>1. TypeOK'
    BY <1>1, <1>5 DEF IInv, TypeOK
  <2>2. NewtonInv' /\ SummaryInv' /\ ControllersInv' /\ FailureInv' /\ RepeatInv'
    BY <1>1, <1>2, <1>5
       DEF NewtonInv, SummaryInv, ControllersInv, FailureInv, RepeatInv
  <2>3. DoneInv'
    BY <1>1, <1>2, <1>5 DEF DoneInv
  <2> QED
    BY <2>1, <2>2, <2>3 DEF IInv
<1> QED
  BY <1>3, <1>4, <1>5 DEF Interchange

-----------------------------------------------------------------------------
(* The invariant is inductive. *)
THEOREM Inductive == Spec => []IInv
<1>1. Init => IInv
  BY InitIInv
<1>2. IInv /\ [Next]_vars => IInv'
  <2> SUFFICES ASSUME IInv, [Next]_vars PROVE IInv'
    OBVIOUS
  <2>1. CASE StartPass
    BY <2>1, StartPassIInv
  <2>2. CASE NewtonStep
    BY <2>2, NewtonStepIInv
  <2>3. CASE EndNewton
    BY <2>3, EndNewtonIInv
  <2>4. CASE Controllers
    BY <2>4, ControllersIInv
  <2>5. CASE PushBack
    BY <2>5, PushBackIInv
  <2>6. CASE Interchange
    BY <2>6, InterchangeIInv
  <2>7. CASE UNCHANGED vars
    BY <2>7 DEF vars, control, newton, network, IInv, TypeOK, NewtonInv,
                SummaryInv, ControllersInv, DoneInv, RepeatInv, FailureInv,
                CtrlLimit, AreaLimit
  <2> QED
    BY <2>1, <2>2, <2>3, <2>4, <2>5, <2>6, <2>7 DEF Next
<1> QED
  BY <1>1, <1>2, PTL DEF Spec

(* No loop counter of solve() leaves its bounds. *)
THEOREM TypeCorrect == Spec => []TypeOK
<1>1. IInv => TypeOK
  BY DEF IInv
<1> QED
  BY <1>1, Inductive, PTL

(* What getConvergence() says afterwards agrees with what solve() returned. *)
THEOREM SummaryAlwaysAgrees == Spec => []SummaryAgrees
<1>1. IInv => SummaryAgrees
  BY DEF IInv, SummaryInv, SummaryAgrees
<1> QED
  BY <1>1, Inductive, PTL

(* With passes left, an accepted state solves the equations as they stand. *)
THEOREM AcceptedAlwaysSolved == Spec => []AcceptedIsSolved
<1>1. IInv => AcceptedIsSolved
  BY DEF IInv, DoneInv, RepeatInv, AcceptedIsSolved
<1> QED
  BY <1>1, Inductive, PTL

(* A failed Newton loop moves no control. *)
THEOREM FailureMovesNothing == Spec => []NoControlOnFailure
<1>1. IInv => NoControlOnFailure
  BY DEF IInv, FailureInv, NoControlOnFailure
<1> QED
  BY <1>1, Inductive, PTL

=============================================================================
