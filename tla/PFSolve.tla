------------------------------ MODULE PFSolve ------------------------------
(***************************************************************************)
(* PFAppModule::solve: a Newton iteration inside a loop over the           *)
(* controllers (remote regulation, Q limits, switched shunts, tap          *)
(* changers) inside a loop over the area exports.  Each pass of the        *)
(* controller loop builds the mappers, the matrix and the right-hand side  *)
(* anew; whatever moves a setting afterwards is not in them.               *)
(*                                                                         *)
(* The mismatch is modelled by what solve() compares it with ("met": not   *)
(* above the tolerance, as a NaN is not either), the network by the number *)
(* of its PV buses and by the settings moved since the mappers were built. *)
(* A linear solve may throw what solve() catches; other exceptions leave   *)
(* solve() and are the caller's (see CADriver).                            *)
(***************************************************************************)
EXTENDS Integers, FiniteSetsExt

CONSTANTS
  MaxIteration,      \* maxIteration
  MaxQlim,           \* maxQlimIterations
  MaxController,     \* maxControllerIterations
  LeastPasses,       \* the literal 10 in the bound of the controller loop
  MaxArea,           \* the literal 10 in the bound of the area loop
  StagnantThreshold, \* STAGNANT_THRESHOLD
  NPV                \* how many buses may be PV

ASSUME SolveAssumption ==
  /\ MaxIteration \in Nat /\ MaxQlim \in Nat /\ MaxController \in Nat
  /\ LeastPasses \in Nat \ {0} /\ MaxArea \in Nat \ {0}
  /\ StagnantThreshold \in Nat \ {0}
  /\ NPV \in Nat

VARIABLES
  opt,        \* which of the controls are switched on or present
  pc,         \* where solve() is
  aiIter,     \* ai_iter
  ctrlIter,   \* ctrl_iter
  iter,       \* the Newton iterations of this pass
  stagnant,   \* stagnant_count
  tol,        \* real(tol): "met" p_tolerance, "high", or "blown" up
  ret,        \* ret; once returned, what solve() returned
  early,      \* qlim_handled_early
  repeat,     \* ctrl_repeat
  conv,       \* p_convergence: converged and iterations
  pv,         \* how many buses are PV
  mapped,     \* how many were when vMap was built
  changed     \* the settings moved since then

control == <<aiIter, ctrlIter, opt>>
newton == <<iter, stagnant, tol, early>>
network == <<pv, mapped, changed>>
vars == <<control, newton, network, pc, ret, repeat, conv>>

Options == [qlim : BOOLEAN, shunt : BOOLEAN, ltc : BOOLEAN, ireg : BOOLEAN,
            area : BOOLEAN]
Settings == {"ireg", "qlim", "shunt", "ltc", "pg"}

NotConverged == [converged |-> FALSE, iterations |-> 0]

(* max_ctrl_iter *)
CtrlLimit ==
  Max({IF opt.shunt \/ opt.ltc THEN MaxController
       ELSE IF opt.qlim THEN MaxQlim ELSE 1,
       LeastPasses})

(* max_ai_iter *)
AreaLimit == IF opt.area THEN MaxArea ELSE 1

Init ==
  /\ opt \in Options
  /\ pc = "pass" /\ aiIter = 1 /\ ctrlIter = 0
  /\ iter = 0 /\ stagnant = 0 /\ tol = "high" /\ early = FALSE
  /\ ret = TRUE /\ repeat = TRUE
  /\ conv \in [converged : BOOLEAN, iterations : 0 .. MaxIteration]
  /\ pv \in 0 .. NPV /\ mapped = pv /\ changed = {}

-----------------------------------------------------------------------------
(* Plausible bugs, for the mutants. *)

(* A new pass leaves the summary of the last one until it has its own. *)
ResetSummaryNever == conv

(* Q limits that were found in the loop are not a reason to solve again. *)
MustRepeatOnlyActed(acted) == acted # {}

(* The controllers act whatever the Newton loop returned. *)
AfterNewtonAlwaysActs(ok) == "controllers"

(* The count goes on after a check that found nothing. *)
NoViolationKeepsCount(n) == n

(* The area passes are not counted. *)
NextAreaUncounted(n) == n

-----------------------------------------------------------------------------
(* The summary while a pass is under way. *)
ResetSummary == NotConverged

(* What the count of equal mismatches becomes after a check without        *)
(* violations.                                                             *)
NoViolation(n) == 0

(* solve() returns false on an exception of the linear solver; the buses   *)
(* stay where they are.                                                    *)
SolverFailure ==
  pc' = "returned" /\ ret' = FALSE

(* The head of the controller loop: the Ybus, Sbus, mappers and the first  *)
(* linear solve.  ret is TRUE again, whatever the last pass left.          *)
StartPass ==
  /\ pc = "pass"
  /\ ctrlIter' = ctrlIter + 1
  /\ conv' = ResetSummary
  /\ mapped' = pv /\ changed' = {}
  /\ iter' = 0 /\ stagnant' = 0 /\ early' = FALSE /\ repeat' = FALSE
  /\ tol' \in {"met", "high"}
  /\ \/ pc' = "newton" /\ ret' = TRUE
     \/ SolverFailure
  /\ UNCHANGED <<aiIter, opt, pv>>

(* chkQlim on all PV buses: some of them become PQ, never the other way.   *)
ConvertPV ==
  /\ pv' \in 0 .. pv - 1
  /\ changed' = changed \cup {"qlim"}

(* The mismatch after one more correction: it may be the same as before,   *)
(* for the StagnantThreshold-th time in a row.                             *)
Stagnates(same) == opt.qlim /\ same /\ stagnant + 1 >= StagnantThreshold

(* One iteration of the Newton loop.  Stagnation with a bus over its       *)
(* limits leaves the loop at once, before the test for a mismatch that     *)
(* has blown up.                                                           *)
NewtonStep ==
  /\ pc = "newton" /\ tol = "high" /\ ret /\ ~ early
  /\ iter < MaxIteration
  /\ UNCHANGED <<control, mapped, repeat, conv>>
  /\ \/ SolverFailure /\ UNCHANGED <<newton, pv, changed>>
     \/ \E same \in BOOLEAN :
          /\ pc' = pc /\ iter' = iter + 1
          /\ tol' \in {"met", "high", "blown"}
          /\ \/ /\ Stagnates(same) /\ ConvertPV
                /\ early' = TRUE
                /\ stagnant' = stagnant + 1
                /\ UNCHANGED ret
             \/ /\ stagnant' = IF Stagnates(same) THEN NoViolation(stagnant + 1)
                               ELSE IF opt.qlim /\ same THEN stagnant + 1 ELSE 0
                /\ ret' = (tol' # "blown")
                /\ UNCHANGED <<early, pv, changed>>

(* The controllers are skipped if the Newton loop failed. *)
AfterNewton(ok) == IF ok THEN "controllers" ELSE "push"

(* The end of the Newton loop.  The last iteration counts as a failure     *)
(* even if its mismatch is met; after an early exit the pass counts as     *)
(* converged.                                                              *)
EndNewton ==
  /\ pc = "newton"
  /\ tol # "high" \/ ~ ret \/ early \/ iter >= MaxIteration
  /\ ret' = (ret /\ iter < MaxIteration)
  /\ conv' = [converged |-> ret', iterations |-> iter]
  /\ pc' = AfterNewton(ret')
  /\ UNCHANGED <<control, newton, network, repeat>>

(* Whether the settings call for another pass. *)
MustRepeat(acted) == acted # {} \/ early

(* Remote regulation moves a PV bus; Q limits are not looked at twice      *)
(* after one Newton loop.  No pass is asked for once the bound is reached, *)
(* although the settings have been moved all the same; the test for the    *)
(* bound that follows in the code therefore never finds anything.          *)
Controllers ==
  /\ pc = "controllers"
  /\ \E acted \in SUBSET {"ireg", "qlim", "shunt", "ltc"} :
       /\ "ireg" \in acted => opt.ireg /\ pv > 0
       /\ "qlim" \in acted => opt.qlim /\ ~ early
       /\ "shunt" \in acted => opt.shunt
       /\ "ltc" \in acted => opt.ltc
       /\ IF "qlim" \in acted THEN pv' \in 0 .. pv - 1 ELSE UNCHANGED pv
       /\ changed' = changed \cup acted
       /\ repeat' = (MustRepeat(acted) /\ ctrlIter < CtrlLimit)
  /\ pc' = "push"
  /\ UNCHANGED <<control, newton, mapped, ret, conv>>

(* The pending correction is discarded before another pass; after the last *)
(* one it is written to the buses through vMap, converged or not.          *)
PushBack ==
  /\ pc = "push"
  /\ pc' = IF repeat THEN "pass" ELSE "interchange"
  /\ UNCHANGED <<control, newton, network, ret, repeat, conv>>

NextArea(n) == n + 1

(* The area loop: an export out of tolerance moves the generation of the   *)
(* area slack, if it has any here, and the controller loop starts again if *)
(* passes are left.                                                        *)
Interchange ==
  /\ pc = "interchange"
  /\ \/ /\ opt.area /\ ret
        /\ \E moved \in SUBSET {"pg"} : changed' = changed \cup moved
        /\ IF aiIter < AreaLimit
           THEN /\ pc' = "pass" /\ aiIter' = NextArea(aiIter) /\ ctrlIter' = 0
                /\ repeat' = TRUE
           ELSE pc' = "returned" /\ UNCHANGED <<aiIter, ctrlIter, repeat>>
     \/ /\ pc' = "returned"
        /\ UNCHANGED <<changed, aiIter, ctrlIter, repeat>>
  /\ UNCHANGED <<newton, opt, ret, conv, pv, mapped>>

Next == StartPass \/ NewtonStep \/ EndNewton \/ Controllers \/ PushBack \/ Interchange

Spec == Init /\ [][Next]_vars
FairSpec == Spec /\ WF_vars(Next)

-----------------------------------------------------------------------------
TypeOK ==
  /\ opt \in Options
  /\ pc \in {"pass", "newton", "controllers", "push", "interchange", "returned"}
  /\ aiIter \in 1 .. AreaLimit
  /\ ctrlIter \in 0 .. CtrlLimit
  /\ iter \in 0 .. MaxIteration
  /\ stagnant \in 0 .. StagnantThreshold
  /\ tol \in {"met", "high", "blown"}
  /\ ret \in BOOLEAN /\ early \in BOOLEAN /\ repeat \in BOOLEAN
  /\ conv \in [converged : BOOLEAN, iterations : 0 .. MaxIteration]
  /\ pv \in 0 .. NPV /\ mapped \in 0 .. NPV
  /\ changed \subseteq Settings

(* getConvergence() after solve() says converged if and only if solve()    *)
(* returned true, whichever pass it ended in and however.                  *)
SummaryAgrees == pc = "returned" => conv.converged = ret

(* When solve() returns true with controller passes left, the mismatch is  *)
(* within tolerance and no control has moved since the equations were set  *)
(* up; with area passes left, no generation has moved either.              *)
AcceptedIsSolved ==
  pc = "returned" /\ ret =>
    /\ ctrlIter < CtrlLimit =>
         tol = "met" /\ changed \cap {"ireg", "qlim", "shunt", "ltc"} = {}
    /\ aiIter < AreaLimit => "pg" \notin changed

(* A Newton loop that failed moves no control, for its voltages are bad:   *)
(* only Q limits may have been enforced, after a stagnation found in the   *)
(* very last iteration.                                                    *)
NoControlOnFailure ==
  ~ ret => /\ changed \subseteq {"qlim"}
           /\ "qlim" \in changed => early /\ iter = MaxIteration

(* solve() comes back if every linear solve does. *)
Terminates == <>(pc = "returned")

-----------------------------------------------------------------------------
(* A statement of a comment that the code does not keep.                   *)

(* "Push final result back onto buses, but ONLY if no controller changes": *)
(* an accepted correction goes through a vMap of the present dimensions.   *)
PushOnOwnMap == pc = "push" /\ ret /\ ~ repeat => mapped = pv

=============================================================================
