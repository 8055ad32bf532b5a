------------------------------ MODULE BatchWave ------------------------------
(***************************************************************************)
(* The waves of the batched engine on one rank: GridpackBatchAssembler     *)
(* (pf_batch_ca_assembler.hpp) and PFBatchNR::solveWave (pf_batch_ca.hpp), *)
(* with the cuDSS solver they share (cudss_batched_solver.hpp), in the     *)
(* order in which the driver calls them.  One network serves all cases of  *)
(* a wave: a case takes its circuits out, iterates on the live voltages,   *)
(* saves them and puts the circuits back, and only then the next starts.   *)
(*                                                                         *)
(* A voltage state is named by the case and the Newton step that made it,  *)
(* <<0, 0>> being the start state of all cases.  What is computed from a   *)
(* network is named by the pair of that state and of the circuits that the *)
(* cached Ybus takes to be out: the residual, the Jacobian, the factors.   *)
(* Of a residual only what the engine can tell is kept.                    *)
(***************************************************************************)
EXTENDS Integers, Sequences, FiniteSets

CONSTANTS
  Circuit,     \* (branch, tag)
  BaseOut,     \* the circuits that are out in the base case
  Waves,       \* what prepare() may find batchable: sequences of outages
  MaxWaves,    \* waves of this rank
  Settings,    \* constructor arguments of PFBatchNR
  Residuals    \* what a residual can be

ASSUME WaveAssumption ==
  /\ BaseOut \subseteq Circuit
  /\ Waves \subseteq Seq(SUBSET Circuit)
  /\ MaxWaves \in Nat
  /\ Settings \subseteq [constantFactor : BOOLEAN, refactorEvery : Int, chordCap : Int,
                         maxIter : Int, maxAdaptive : Int]
  /\ Residuals \subseteq {"met", "open", "inf", "nan"} /\ "met" \in Residuals

Max2(a, b) == IF a >= b THEN a ELSE b
Min2(a, b) == IF a <= b THEN a ELSE b

VARIABLES
  set,        \* the arguments of this job
  wave,       \* waves begun
  pc,
  batch,      \* p_batchBranches: the circuits of each case of the wave
  k,          \* the case the engine is at, or the one that is overlaid
  out,        \* the circuits whose status is out of service
  ybus,       \* the circuits that the cached Ybus takes to be out
  volt,       \* the voltages in the network
  saved,      \* p_caseV and p_caseA of each case
  inj,        \* what the residual and the injections at the buses come from
  jac,        \* what the values of the Jacobian come from
  mism,       \* the residual that m is the norm of: "met", "open", "inf", or
              \* "nan" if its entries are within the tolerance or no numbers
  factor,     \* what the factors in the solver were computed from
  it, adaptive, sinceFactor, lastWasAdaptive,   \* locals of solveWave
  status,     \* p_status: "none", "conv" or "left", and the iterations
  nfactor,    \* factorizations on the solver's data object (history)
  met         \* where all of the residual was within the tolerance (history)

netVars == <<out, ybus, volt, saved>>
engineVars == <<inj, jac, mism, factor, it, adaptive, sinceFactor, lastWasAdaptive,
                nfactor, met>>
vars == <<set, wave, pc, batch, k, netVars, engineVars, status>>

Start == <<0, 0>>
Foreign == <<-1, 0>>        \* left by an ordinary solve
Nothing == <<Foreign, {}>>  \* what an empty buffer was computed from

(* The constructor of PFBatchNR. *)
Clamp(s) ==
  [chord |-> s.constantFactor \/ s.refactorEvery > 1,
   every |-> Max2(0, s.refactorEvery),
   cap |-> IF s.chordCap > 0 THEN Min2(s.chordCap, Max2(1, s.maxIter))
           ELSE Max2(1, s.maxIter),
   maxIter |-> s.maxIter,
   maxAdaptive |-> Max2(0, s.maxAdaptive)]

NoStatus == [verdict |-> "none", it |-> 0]

Init ==
  /\ set \in {Clamp(s) : s \in Settings}
  /\ wave = 0 /\ pc = "idle" /\ batch = <<>> /\ k = 0
  /\ out = BaseOut /\ ybus = BaseOut /\ volt = Start /\ saved = <<>>
  /\ inj = Nothing /\ jac = Nothing /\ mism = "open" /\ factor = Nothing
  /\ it = 0 /\ adaptive = 0 /\ sinceFactor = 0 /\ lastWasAdaptive = FALSE
  /\ status = <<>> /\ nfactor = 0 /\ met = {}

Live == <<volt, ybus>>
CaseOut(j) == BaseOut \cup batch[j]
Touched == UNION {batch[j] : j \in DOMAIN batch}

-----------------------------------------------------------------------------
(* Plausible bugs, for the mutants. *)

(* A circuit of a case is put into service, whatever its base status was. *)
ToggledEnergized(S, c, inService) == IF inService THEN S \ c ELSE S \cup c

(* The factors of the last case are good enough. *)
NeedsFactorNot == factor = Nothing

(* The bound on adaptive refactorizations is not looked at. *)
TooPoorOnce(poor) == poor /\ lastWasAdaptive

(* The voltages of a case are saved under the previous one. *)
SaveCaseFirst == saved' = [saved EXCEPT ![1] = volt]

-----------------------------------------------------------------------------
(* The assembler. *)

(* p_toggleBranches on a set of circuits. *)
Toggled(S, c, inService) ==
  IF inService THEN (S \ c) \cup (BaseOut \cap c) ELSE S \cup c

(* p_localSetYBus: status, branch Ybus and the two endpoints. *)
LocalSetYBus(c, inService) ==
  /\ out' = Toggled(out, c, inService)
  /\ ybus' = Toggled(ybus, c, inService)

(* p_restoreBaseState: the circuits of all cases, the start voltages and   *)
(* the whole Ybus.                                                         *)
RestoreBaseState ==
  /\ out' = Toggled(out, Touched, TRUE)
  /\ ybus' = Toggled(out, Touched, TRUE)
  /\ volt' = Start

(* beginWave and prepare.  The probe of prepare sets and unsets an event,  *)
(* which leaves the statuses as they were (Contingency.tla).               *)
BeginWave ==
  /\ pc = "idle" /\ wave < MaxWaves
  /\ wave' = wave + 1
  /\ RestoreBaseState
  /\ \E w \in Waves :
       /\ batch' = w
       /\ saved' = [j \in DOMAIN w |-> Start]
       /\ status' = [j \in DOMAIN w |-> NoStatus]
       /\ pc' = IF w = <<>> THEN "overlay" ELSE "analyze"
  /\ k' = 0 /\ met' = {}
  /\ UNCHANGED <<set, inj, jac, mism, factor, it, adaptive, sinceFactor, lastWasAdaptive,
                 nfactor>>

(* A new solver for every wave, with one symbolic analysis. *)
Analyze ==
  /\ pc = "analyze"
  /\ factor' = Nothing /\ nfactor' = 0
  /\ k' = 1
  /\ pc' = "start"
  /\ UNCHANGED <<set, wave, batch, netVars, inj, jac, mism, it, adaptive, sinceFactor,
                 lastWasAdaptive, status, met>>

(* p_fastRhs on the new state of the network.  Its norm is a maximum that  *)
(* an entry which is no number does not enter.                             *)
FastRhs ==
  /\ inj' = Live'
  /\ mism' \in Residuals
  /\ met' = IF mism' = "met" THEN met \cup {Live'} ELSE met

WithinTol(m) == m \in {"met", "nan"}

(* assembleLive: the state of the case, its circuits out, residual and     *)
(* Jacobian.                                                               *)
AssembleLive ==
  /\ pc = "start"
  /\ volt' = saved[k]
  /\ LocalSetYBus(batch[k], FALSE)
  /\ FastRhs
  /\ jac' = Live'
  /\ it' = 1 /\ adaptive' = 0 /\ sinceFactor' = 0 /\ lastWasAdaptive' = FALSE
  /\ pc' = IF WithinTol(mism') THEN "finish"
           ELSE IF set.chord THEN "factorize" ELSE "step"
  /\ UNCHANGED <<set, wave, batch, k, saved, factor, status, nfactor>>

(* updateLive and updateLiveRhs: the correction on the live voltages, the  *)
(* residual, and in the exact path the next Jacobian.                      *)
UpdateLive(withJac) ==
  /\ volt' = <<k, volt[2] + 1>>
  /\ UNCHANGED <<out, ybus>>
  /\ FastRhs
  /\ jac' = IF withJac THEN Live' ELSE jac

(* finishLive: p_snapshotCase, and the circuits back. *)
SaveCase == saved' = [saved EXCEPT ![k] = volt]

-----------------------------------------------------------------------------
(* solveWave with factor reuse. *)

(* A factorization replaces the factors, also if it fails. *)
FactorizeValues(vals, ok) ==
  /\ factor' = IF ok THEN vals ELSE Nothing
  /\ nfactor' = nfactor + 1

NeedsFactor == TRUE

Factorize ==
  /\ pc = "factorize"
  /\ \E ok \in BOOLEAN :
       /\ IF NeedsFactor THEN FactorizeValues(jac, ok) ELSE UNCHANGED <<factor, nfactor>>
       /\ pc' = IF ok THEN "step" ELSE "finish"
  /\ UNCHANGED <<set, wave, batch, k, netVars, inj, jac, mism, it, adaptive, sinceFactor,
                 lastWasAdaptive, status, met>>

(* The loop has made all its steps. *)
LastStep == it >= (IF set.chord THEN set.cap ELSE set.maxIter)

StepsUsed ==
  /\ pc = "step" /\ LastStep
  /\ pc' = "finish"
  /\ UNCHANGED <<set, wave, batch, k, netVars, engineVars, status>>

SolveFails ==
  /\ pc = "step" /\ ~LastStep
  /\ pc' = "finish"
  /\ IF set.chord THEN UNCHANGED <<factor, nfactor>>
     ELSE \E ok \in BOOLEAN : FactorizeValues(jac, ok)
  /\ UNCHANGED <<set, wave, batch, k, netVars, inj, jac, mism, it, adaptive,
                 sinceFactor, lastWasAdaptive, status, met>>

Scheduled == set.every > 1 /\ sinceFactor + 1 >= set.every

(* A poor step right after an adaptive refactorization, or when there have *)
(* been enough of them, ends the case.                                     *)
TooPoor(poor) == poor /\ (lastWasAdaptive \/ adaptive >= set.maxAdaptive)

(* The counters after a refactorization. *)
CountsRefactor(poor) ==
  /\ sinceFactor' = 0
  /\ adaptive' = adaptive + (IF poor THEN 1 ELSE 0)
  /\ lastWasAdaptive' = poor

(* solveReuse, updateLiveRhs and what follows from the new mismatch.  *)
(* The ratio to an infinite mismatch is zero.                              *)
ChordStep ==
  /\ pc = "step" /\ set.chord /\ ~LastStep
  /\ UpdateLive(FALSE)
  /\ \E poor \in BOOLEAN :
       /\ mism = "inf" => ~poor
       /\ \/ /\ WithinTol(mism')
             /\ pc' = "finish" /\ it' = it + 1
             /\ UNCHANGED <<adaptive, sinceFactor, lastWasAdaptive>>
          \/ /\ mism' = "inf"
             /\ pc' = "finish"
             /\ UNCHANGED <<it, adaptive, sinceFactor, lastWasAdaptive>>
          \/ /\ mism' = "open" /\ TooPoor(poor)
             /\ pc' = "finish" /\ sinceFactor' = sinceFactor + 1
             /\ UNCHANGED <<it, adaptive, lastWasAdaptive>>
          \/ /\ mism' = "open" /\ ~TooPoor(poor) /\ (poor \/ Scheduled)
             /\ pc' = IF poor THEN "refactorPoor" ELSE "refactor"
             /\ sinceFactor' = sinceFactor + 1
             /\ UNCHANGED <<it, adaptive, lastWasAdaptive>>
          \/ /\ mism' = "open" /\ ~poor /\ ~Scheduled
             /\ pc' = "step" /\ it' = it + 1
             /\ sinceFactor' = sinceFactor + 1 /\ lastWasAdaptive' = FALSE
             /\ UNCHANGED adaptive
  /\ UNCHANGED <<set, wave, batch, k, saved, factor, nfactor, status>>

(* assembleLiveJac and factorizeValues. *)
Refactor ==
  LET poor == pc = "refactorPoor"
  IN  /\ pc \in {"refactor", "refactorPoor"}
      /\ jac' = Live
      /\ \E ok \in BOOLEAN :
           /\ FactorizeValues(Live, ok)
           /\ IF ok
              THEN CountsRefactor(poor) /\ pc' = "step" /\ it' = it + 1
              ELSE pc' = "finish" /\ UNCHANGED <<it, adaptive, sinceFactor, lastWasAdaptive>>
      /\ UNCHANGED <<set, wave, batch, k, netVars, inj, mism, status, met>>

-----------------------------------------------------------------------------
(* solveWave with exact Newton: solveOne factorizes and solves. *)

ExactStep ==
  /\ pc = "step" /\ ~set.chord /\ ~LastStep
  /\ factor' = jac /\ nfactor' = nfactor + 1
  /\ UpdateLive(TRUE)
  /\ it' = it + 1
  /\ pc' = IF WithinTol(mism') THEN "finish" ELSE "step"
  /\ UNCHANGED <<set, wave, batch, k, saved, adaptive, sinceFactor, lastWasAdaptive,
                 status>>

-----------------------------------------------------------------------------
(* The end of a case and of the wave. *)

More == k < Len(batch)

FinishLive ==
  /\ pc = "finish"
  /\ SaveCase
  /\ LocalSetYBus(batch[k], TRUE)
  /\ status' = [status EXCEPT ![k] = [verdict |-> IF WithinTol(mism) THEN "conv" ELSE "left",
                                      it |-> it]]
  /\ IF More THEN k' = k + 1 /\ pc' = "start" ELSE k' = 0 /\ pc' = "overlay"
  /\ UNCHANGED <<set, wave, batch, volt, engineVars>>

(* The driver overlays the cases that converged: for the controllers, and  *)
(* then for output.  The injections are computed anew.                     *)
ApplyCaseForOutput(j) ==
  /\ pc = "overlay" /\ status[j].verdict = "conv"
  /\ volt' = saved[j]
  /\ LocalSetYBus(batch[j], FALSE)
  /\ inj' = Live'
  /\ k' = j /\ pc' = "shown"
  /\ UNCHANGED <<set, wave, batch, saved, jac, mism, factor, it, adaptive, sinceFactor,
                 lastWasAdaptive, nfactor, met, status>>

ClearCaseForOutput ==
  /\ pc = "shown"
  /\ LocalSetYBus(batch[k], TRUE)
  /\ k' = 0 /\ pc' = "overlay"
  /\ UNCHANGED <<set, wave, batch, volt, saved, engineVars, status>>

(* restoreBaseState before the ordinary solves. *)
OverlaysDone ==
  /\ pc = "overlay"
  /\ RestoreBaseState
  /\ pc' = "idle"
  /\ UNCHANGED <<set, wave, batch, k, saved, engineVars, status>>

(* An ordinary solve of an event: the statuses return, Ybus and voltages   *)
(* are left as the event had them.                                         *)
OrdinarySolve ==
  /\ pc \in {"idle", "given up"} /\ wave > 0
  /\ \E c \in SUBSET Circuit : ybus' = out \cup c
  /\ volt' = Foreign /\ inj' = Nothing
  /\ UNCHANGED <<set, wave, pc, batch, k, out, saved, jac, mism, factor, it, adaptive,
                 sinceFactor, lastWasAdaptive, nfactor, met, status>>

(* Something in the engine throws: the driver restores the base state, if  *)
(* that does not throw after the statuses, and makes no other wave.        *)
WaveFails ==
  /\ pc \notin {"idle", "given up"}
  /\ \/ RestoreBaseState
     \/ /\ out' = Toggled(out, Touched, TRUE)
        /\ ybus' = ybus /\ volt' \in {volt, Start}
  /\ pc' = "given up"
  /\ UNCHANGED <<set, wave, batch, k, saved, engineVars, status>>

Next ==
  \/ BeginWave \/ Analyze \/ AssembleLive \/ Factorize \/ StepsUsed \/ SolveFails
  \/ ChordStep \/ Refactor \/ ExactStep \/ FinishLive
  \/ (\E j \in DOMAIN batch : ApplyCaseForOutput(j)) \/ ClearCaseForOutput
  \/ OverlaysDone \/ OrdinarySolve \/ WaveFails

Spec == Init /\ [][Next]_vars

-----------------------------------------------------------------------------
VoltState == (Nat \cup {-1}) \X Nat
Source == VoltState \X SUBSET Circuit

(* The values of the variables. *)
TypeOK ==
  /\ set \in {Clamp(s) : s \in Settings}
  /\ wave \in 0 .. MaxWaves
  /\ pc \in {"idle", "analyze", "start", "factorize", "step", "refactor", "refactorPoor",
             "finish", "overlay", "shown", "given up"}
  /\ batch \in Seq(SUBSET Circuit) /\ k \in 0 .. Len(batch)
  /\ out \subseteq Circuit /\ ybus \subseteq Circuit /\ volt \in VoltState
  /\ saved \in [DOMAIN batch -> VoltState]
  /\ inj \in Source /\ jac \in Source /\ factor \in Source /\ met \subseteq Source
  /\ mism \in Residuals \cup {"open"}
  /\ it \in Nat /\ adaptive \in Nat /\ sinceFactor \in Nat /\ nfactor \in Nat
  /\ lastWasAdaptive \in BOOLEAN
  /\ status \in [DOMAIN batch -> [verdict : {"none", "conv", "left"}, it : Nat]]

(* A step of a case is computed from that case alone: its right-hand side  *)
(* is the residual of the network as it is, with the circuits of the case  *)
(* out, and its factors are of a Jacobian of the same circuits at a        *)
(* voltage state of this case, never of another case or of the base.       *)
StepIsOwn ==
  pc = "step" =>
    /\ out = CaseOut(k) /\ ybus = out /\ inj = Live
    /\ LET m == IF set.chord THEN factor ELSE jac
       IN  /\ m[2] = out
           /\ m[1] = Start \/ (m[1][1] = k /\ m[1][2] <= volt[2])
           /\ ~set.chord => m = Live

(* Between two cases and between two waves the base circuits are in force, *)
(* in the status and, while the wave lasts, in the cached Ybus too: outages *)
(* do not add up along a wave, and no circuit that was out in the base is  *)
(* ever put into service.                                                  *)
BaseBetweenCases ==
  /\ pc \in {"idle", "analyze", "start", "overlay", "given up"} => out = BaseOut
  /\ pc \in {"analyze", "start", "overlay"} => ybus = BaseOut
  /\ BaseOut \subseteq out

(* After the wave each case has a verdict.  What a case that converged has *)
(* saved solves the case, and what is overlaid for the controllers and the *)
(* output is that state, with the injections that belong to it.            *)
VerdictIsSolved ==
  /\ pc = "overlay" => \A j \in DOMAIN batch : status[j].verdict # "none"
  /\ \A j \in DOMAIN batch :
       status[j].verdict = "conv" => <<saved[j], CaseOut(j)>> \in met
  /\ pc = "shown" => out = CaseOut(k) /\ inj = Live /\ Live \in met

(* A case gets at most maxAdaptiveRefactors refactorizations for poor      *)
(* progress and no two of them in adjacent steps; with a stride no factors *)
(* serve more solves than it says; and no case makes more steps than its   *)
(* cap, so a wave is at most that many factorizations per case.            *)
RefactorBudget ==
  /\ adaptive <= set.maxAdaptive /\ 2 * adaptive <= Max2(2, it)
  /\ pc = "step" /\ set.chord /\ set.every > 1 => sinceFactor < set.every
  /\ it <= Max2(1, IF set.chord THEN set.cap ELSE set.maxIter)
  /\ pc = "start" => nfactor <= (k - 1) * Max2(1, IF set.chord THEN set.cap ELSE set.maxIter)

=============================================================================
