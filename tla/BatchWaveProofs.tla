--------------------------- MODULE BatchWaveProofs ---------------------------
(***************************************************************************)
(* Proofs about BatchWave, for any circuits, any waves and any settings of *)
(* the engine.  The inductive invariant has four parts beside the types:   *)
(* which circuits are out where, what each computed thing was computed     *)
(* from, what the verdicts rest on, and what the counters add up to.       *)
(***************************************************************************)
EXTENDS BatchWave, TLAPS

(* The states inside a case, after its circuits were taken out. *)
InCase == pc \in {"factorize", "step", "refactor", "refactorPoor", "finish"}

(* The most steps that a case can make. *)
Steps == Max2(1, IF set.chord THEN set.cap ELSE set.maxIter)

(* Which circuits are out, in the status and in the cached Ybus. *)
TopologyInv ==
  /\ pc \in {"idle", "analyze", "start", "overlay", "given up"} => out = BaseOut
  /\ pc \in {"analyze", "start", "overlay"} => ybus = BaseOut
  /\ pc = "start" => k \in DOMAIN batch
  /\ InCase \/ pc = "shown" => k \in DOMAIN batch /\ out = CaseOut(k) /\ ybus = out
  /\ pc = "analyze" => k = 0 /\ batch # <<>>

(* A Jacobian or factors of the case that is being solved. *)
OfThisCase(m) ==
  /\ m[2] = out
  /\ m[1] = Start \/ (m[1][1] = k /\ m[1][2] <= volt[2])

(* Where the residual, the Jacobian and the factors come from, and that a  *)
(* case not yet begun starts from the start state.                         *)
SourceInv ==
  /\ pc \in {"analyze", "start"} \/ InCase => \A j \in DOMAIN batch : j > k => saved[j] = Start
  /\ pc = "start" => saved[k] = Start
  /\ InCase => inj = Live /\ (volt = Start \/ volt[1] = k)
  /\ pc \in {"factorize", "refactor", "refactorPoor"} => set.chord
  /\ pc \in {"factorize", "step"} => OfThisCase(jac)
  /\ pc = "step" /\ ~set.chord => jac = Live
  /\ pc \in {"step", "refactor", "refactorPoor"} /\ set.chord => OfThisCase(factor)

(* What the verdicts, given and to come, rest on. *)
VerdictInv ==
  /\ InCase /\ mism = "met" => Live \in met
  /\ InCase => mism \in Residuals
  /\ \A j \in DOMAIN batch : status[j].verdict = "conv" => <<saved[j], CaseOut(j)>> \in met
  /\ pc = "start" \/ InCase => \A j \in DOMAIN batch : j < k => status[j].verdict # "none"
  /\ pc \in {"overlay", "shown"} => \A j \in DOMAIN batch : status[j].verdict # "none"
  /\ pc = "shown" => inj = Live /\ Live \in met

(* The counters of a case. *)
CountInv ==
  /\ adaptive <= set.maxAdaptive
  /\ 2 * adaptive <= it
  /\ it <= Steps
  /\ InCase => it >= 1
  /\ InCase /\ pc # "finish" /\ ~lastWasAdaptive => 2 * adaptive <= it - 1
  /\ pc \in {"refactor", "refactorPoor"} => it < Steps
  /\ pc = "refactorPoor" => ~lastWasAdaptive /\ adaptive < set.maxAdaptive
  /\ pc = "factorize" => it = 1 /\ sinceFactor = 0
  /\ pc = "step" /\ set.chord /\ set.every > 1 => sinceFactor < set.every

(* The factorizations of this case and of those before it. *)
FactorInv ==
  /\ pc \in {"start", "factorize"} => nfactor <= (k - 1) * Steps
  /\ pc \in {"step", "refactor", "refactorPoor"} /\ set.chord => nfactor <= (k - 1) * Steps + it
  /\ pc = "step" /\ ~set.chord => nfactor <= (k - 1) * Steps + it - 1
  /\ pc = "finish" => nfactor <= k * Steps

(* The inductive invariant; VerdictInv joins it where residuals are numbers. *)
IInv == TypeOK /\ TopologyInv /\ SourceInv /\ CountInv /\ FactorInv

-----------------------------------------------------------------------------
(* What the constructor makes of its arguments. *)
LEMMA Settled ==
  ASSUME TypeOK
  PROVE  /\ set.chord \in BOOLEAN /\ set.every \in Nat /\ set.maxAdaptive \in Nat
         /\ set.cap \in Nat \ {0} /\ set.maxIter \in Int
         /\ Steps \in Nat \ {0}
<1>1. PICK s \in Settings : set = Clamp(s)
  BY DEF TypeOK
<1>2. s \in [constantFactor : BOOLEAN, refactorEvery : Int, chordCap : Int,
             maxIter : Int, maxAdaptive : Int]
  BY <1>1, WaveAssumption
<1>3. set.chord \in BOOLEAN
  BY <1>1, Zenon DEF Clamp
<1>4. /\ set.every \in Nat /\ set.maxAdaptive \in Nat
      /\ set.cap \in Nat \ {0} /\ set.maxIter \in Int
  BY <1>1, <1>2 DEF Clamp, Max2, Min2
<1>5. Steps \in Nat \ {0}
  BY <1>4 DEF Steps, Max2
<1> QED
  BY <1>3, <1>4, <1>5

(* Circuits stay circuits when some of them are toggled. *)
LEMMA ToggledIn ==
  ASSUME NEW S \in SUBSET Circuit, NEW c \in SUBSET Circuit, NEW b
  PROVE  Toggled(S, c, b) \in SUBSET Circuit
  BY WaveAssumption DEF Toggled

(* The circuits of the cases of a wave are circuits. *)
LEMMA CasesIn ==
  ASSUME TypeOK
  PROVE  /\ DOMAIN batch = 1 .. Len(batch) /\ Len(batch) \in Nat
         /\ \A j \in DOMAIN batch : batch[j] \in SUBSET Circuit
         /\ Touched \in SUBSET Circuit
<1>1. batch \in Seq(SUBSET Circuit)
  BY DEF TypeOK
<1>2. /\ DOMAIN batch = 1 .. Len(batch) /\ Len(batch) \in Nat
      /\ \A j \in DOMAIN batch : batch[j] \in SUBSET Circuit
  BY <1>1
<1> QED
  BY <1>2 DEF Touched

(* Parts of the types that are used often. *)
LEMMA Values ==
  ASSUME TypeOK
  PROVE  /\ it \in Nat /\ adaptive \in Nat /\ sinceFactor \in Nat /\ nfactor \in Nat
         /\ k \in Nat /\ out \in SUBSET Circuit /\ ybus \in SUBSET Circuit
         /\ volt \in VoltState /\ Start \in VoltState
<1>1. /\ it \in Nat /\ adaptive \in Nat /\ sinceFactor \in Nat /\ nfactor \in Nat
      /\ out \in SUBSET Circuit /\ ybus \in SUBSET Circuit /\ volt \in VoltState
  BY DEF TypeOK
<1>2. k \in 0 .. Len(batch) /\ Len(batch) \in Nat
  BY CasesIn DEF TypeOK
<1>3. Start \in VoltState
  BY DEF Start, VoltState
<1> QED
  BY <1>1, <1>2, <1>3

(* Where the engine is at a case, it is one of the wave. *)
LEMMA AtCase ==
  ASSUME TypeOK, TopologyInv
  PROVE  /\ pc \in {"start", "shown"} \/ InCase => k \in DOMAIN batch
         /\ pc = "analyze" => 1 \in DOMAIN batch
<1>1. pc \in {"start", "shown"} \/ InCase => k \in DOMAIN batch
  BY DEF TopologyInv
<1>2. batch \in Seq(SUBSET Circuit) /\ (pc = "analyze" => batch # <<>>)
  BY DEF TypeOK, TopologyInv
<1>3. pc = "analyze" => 1 \in DOMAIN batch
  BY <1>2
<1> QED
  BY <1>1, <1>3

(* No step leaves the types. *)
LEMMA TypeStep ==
  ASSUME TypeOK, TopologyInv, [Next]_vars
  PROVE  TypeOK'
<1>1. CASE BeginWave
  <2>1. out' \in SUBSET Circuit /\ ybus' \in SUBSET Circuit /\ volt' \in VoltState
    BY <1>1, ToggledIn, CasesIn, AtCase, WaveAssumption DEF BeginWave, TypeOK, InCase,
      RestoreBaseState, Start, VoltState
  <2>2. lastWasAdaptive' \in BOOLEAN
    BY <1>1, Zenon DEF BeginWave, TypeOK
  <2>3. inj' \in Source /\ jac' \in Source /\ factor' \in Source /\ met' \in SUBSET Source
    BY <1>1, <2>1 DEF BeginWave, TypeOK, Source, VoltState
  <2>4. /\ set' \in {Clamp(s) : s \in Settings} /\ wave' \in 0 .. MaxWaves
        /\ batch' \in Seq(SUBSET Circuit) /\ k' \in 0 .. Len(batch')
        /\ pc' \in {"idle", "analyze", "start", "factorize", "step", "refactor",
                    "refactorPoor", "finish", "overlay", "shown", "given up"}
    BY <1>1, CasesIn, AtCase, WaveAssumption DEF BeginWave, TypeOK, InCase
  <2>5. /\ saved' \in [DOMAIN batch' -> VoltState] /\ mism' \in Residuals \cup {"open"}
        /\ status' \in [DOMAIN batch' -> [verdict : {"none", "conv", "left"}, it : Nat]]
    BY <1>1, CasesIn, AtCase, WaveAssumption DEF BeginWave, TypeOK, Start, VoltState,
      NoStatus
  <2>6. it' \in Nat /\ adaptive' \in Nat /\ sinceFactor' \in Nat /\ nfactor' \in Nat
    BY <1>1 DEF BeginWave, TypeOK
  <2> QED
    BY <2>1, <2>2, <2>3, <2>4, <2>5, <2>6 DEF TypeOK
<1>2. CASE Analyze
  <2>1. out' \in SUBSET Circuit /\ ybus' \in SUBSET Circuit /\ volt' \in VoltState
    BY <1>2, ToggledIn, CasesIn, AtCase, WaveAssumption DEF Analyze, TypeOK, InCase,
      netVars, VoltState
  <2>2. lastWasAdaptive' \in BOOLEAN
    BY <1>2, Zenon DEF Analyze, TypeOK
  <2>3. inj' \in Source /\ jac' \in Source /\ factor' \in Source /\ met' \in SUBSET Source
    BY <1>2, <2>1 DEF Analyze, TypeOK, Source, Nothing, Foreign, VoltState
  <2>4. /\ set' \in {Clamp(s) : s \in Settings} /\ wave' \in 0 .. MaxWaves
        /\ batch' \in Seq(SUBSET Circuit) /\ k' \in 0 .. Len(batch')
        /\ pc' \in {"idle", "analyze", "start", "factorize", "step", "refactor",
                    "refactorPoor", "finish", "overlay", "shown", "given up"}
    BY <1>2, CasesIn, AtCase, WaveAssumption DEF Analyze, TypeOK, InCase
  <2>5. /\ saved' \in [DOMAIN batch' -> VoltState] /\ mism' \in Residuals \cup {"open"}
        /\ status' \in [DOMAIN batch' -> [verdict : {"none", "conv", "left"}, it : Nat]]
    BY <1>2, CasesIn, AtCase, WaveAssumption DEF Analyze, TypeOK, netVars, VoltState
  <2>6. it' \in Nat /\ adaptive' \in Nat /\ sinceFactor' \in Nat /\ nfactor' \in Nat
    BY <1>2 DEF Analyze, TypeOK
  <2> QED
    BY <2>1, <2>2, <2>3, <2>4, <2>5, <2>6 DEF TypeOK
<1>3. CASE AssembleLive
  <2>1. out' \in SUBSET Circuit /\ ybus' \in SUBSET Circuit /\ volt' \in VoltState
    BY <1>3, ToggledIn, CasesIn, AtCase, WaveAssumption DEF AssembleLive, TypeOK, InCase,
      LocalSetYBus, VoltState
  <2>2. lastWasAdaptive' \in BOOLEAN
    BY <1>3, Zenon DEF AssembleLive, TypeOK
  <2>3. inj' \in Source /\ jac' \in Source /\ factor' \in Source /\ met' \in SUBSET Source
    BY <1>3, <2>1 DEF AssembleLive, TypeOK, Source, Live, VoltState, FastRhs
  <2>4. /\ set' \in {Clamp(s) : s \in Settings} /\ wave' \in 0 .. MaxWaves
        /\ batch' \in Seq(SUBSET Circuit) /\ k' \in 0 .. Len(batch')
        /\ pc' \in {"idle", "analyze", "start", "factorize", "step", "refactor",
                    "refactorPoor", "finish", "overlay", "shown", "given up"}
    BY <1>3, CasesIn, AtCase, WaveAssumption DEF AssembleLive, TypeOK, InCase
  <2>5. /\ saved' \in [DOMAIN batch' -> VoltState] /\ mism' \in Residuals \cup {"open"}
        /\ status' \in [DOMAIN batch' -> [verdict : {"none", "conv", "left"}, it : Nat]]
    BY <1>3, CasesIn, AtCase, WaveAssumption DEF AssembleLive, TypeOK, VoltState, FastRhs
  <2>6. it' \in Nat /\ adaptive' \in Nat /\ sinceFactor' \in Nat /\ nfactor' \in Nat
    BY <1>3 DEF AssembleLive, TypeOK
  <2> QED
    BY <2>1, <2>2, <2>3, <2>4, <2>5, <2>6 DEF TypeOK
<1>4. CASE Factorize
  <2>1. out' \in SUBSET Circuit /\ ybus' \in SUBSET Circuit /\ volt' \in VoltState
    BY <1>4, ToggledIn, CasesIn, AtCase, WaveAssumption DEF Factorize, TypeOK, InCase,
      netVars, VoltState
  <2>2. lastWasAdaptive' \in BOOLEAN
    BY <1>4, Zenon DEF Factorize, TypeOK
  <2>3. inj' \in Source /\ jac' \in Source /\ factor' \in Source /\ met' \in SUBSET Source
    BY <1>4, <2>1 DEF Factorize, TypeOK, Source, Nothing, Foreign, VoltState,
      FactorizeValues
  <2>4. /\ set' \in {Clamp(s) : s \in Settings} /\ wave' \in 0 .. MaxWaves
        /\ batch' \in Seq(SUBSET Circuit) /\ k' \in 0 .. Len(batch')
        /\ pc' \in {"idle", "analyze", "start", "factorize", "step", "refactor",
                    "refactorPoor", "finish", "overlay", "shown", "given up"}
    BY <1>4, CasesIn, AtCase, WaveAssumption DEF Factorize, TypeOK, InCase
  <2>5. /\ saved' \in [DOMAIN batch' -> VoltState] /\ mism' \in Residuals \cup {"open"}
        /\ status' \in [DOMAIN batch' -> [verdict : {"none", "conv", "left"}, it : Nat]]
    BY <1>4, CasesIn, AtCase, WaveAssumption DEF Factorize, TypeOK, netVars, VoltState
  <2>6. it' \in Nat /\ adaptive' \in Nat /\ sinceFactor' \in Nat /\ nfactor' \in Nat
    BY <1>4 DEF Factorize, TypeOK, FactorizeValues
  <2> QED
    BY <2>1, <2>2, <2>3, <2>4, <2>5, <2>6 DEF TypeOK
<1>5. CASE StepsUsed
  <2>1. out' \in SUBSET Circuit /\ ybus' \in SUBSET Circuit /\ volt' \in VoltState
    BY <1>5, ToggledIn, CasesIn, AtCase, WaveAssumption DEF StepsUsed, TypeOK, InCase,
      netVars, VoltState
  <2>2. lastWasAdaptive' \in BOOLEAN
    BY <1>5, Zenon DEF StepsUsed, TypeOK, engineVars
  <2>3. inj' \in Source /\ jac' \in Source /\ factor' \in Source /\ met' \in SUBSET Source
    BY <1>5, <2>1 DEF StepsUsed, TypeOK, engineVars, Source, VoltState
  <2>4. /\ set' \in {Clamp(s) : s \in Settings} /\ wave' \in 0 .. MaxWaves
        /\ batch' \in Seq(SUBSET Circuit) /\ k' \in 0 .. Len(batch')
        /\ pc' \in {"idle", "analyze", "start", "factorize", "step", "refactor",
                    "refactorPoor", "finish", "overlay", "shown", "given up"}
    BY <1>5, CasesIn, AtCase, WaveAssumption DEF StepsUsed, TypeOK, InCase, engineVars
  <2>5. /\ saved' \in [DOMAIN batch' -> VoltState] /\ mism' \in Residuals \cup {"open"}
        /\ status' \in [DOMAIN batch' -> [verdict : {"none", "conv", "left"}, it : Nat]]
    BY <1>5, CasesIn, AtCase, WaveAssumption DEF StepsUsed, TypeOK, netVars, engineVars,
      VoltState
  <2>6. it' \in Nat /\ adaptive' \in Nat /\ sinceFactor' \in Nat /\ nfactor' \in Nat
    BY <1>5 DEF StepsUsed, TypeOK, engineVars
  <2> QED
    BY <2>1, <2>2, <2>3, <2>4, <2>5, <2>6 DEF TypeOK
<1>6. CASE SolveFails
  <2>1. out' \in SUBSET Circuit /\ ybus' \in SUBSET Circuit /\ volt' \in VoltState
    BY <1>6, ToggledIn, CasesIn, AtCase, WaveAssumption DEF SolveFails, TypeOK, InCase,
      netVars, VoltState
  <2>2. lastWasAdaptive' \in BOOLEAN
    BY <1>6, Zenon DEF SolveFails, TypeOK
  <2>3. inj' \in Source /\ jac' \in Source /\ factor' \in Source /\ met' \in SUBSET Source
    BY <1>6, <2>1 DEF SolveFails, TypeOK, Source, Nothing, Foreign, VoltState,
      FactorizeValues
  <2>4. /\ set' \in {Clamp(s) : s \in Settings} /\ wave' \in 0 .. MaxWaves
        /\ batch' \in Seq(SUBSET Circuit) /\ k' \in 0 .. Len(batch')
        /\ pc' \in {"idle", "analyze", "start", "factorize", "step", "refactor",
                    "refactorPoor", "finish", "overlay", "shown", "given up"}
    BY <1>6, CasesIn, AtCase, WaveAssumption DEF SolveFails, TypeOK, InCase
  <2>5. /\ saved' \in [DOMAIN batch' -> VoltState] /\ mism' \in Residuals \cup {"open"}
        /\ status' \in [DOMAIN batch' -> [verdict : {"none", "conv", "left"}, it : Nat]]
    BY <1>6, CasesIn, AtCase, WaveAssumption DEF SolveFails, TypeOK, netVars, VoltState
  <2>6. it' \in Nat /\ adaptive' \in Nat /\ sinceFactor' \in Nat /\ nfactor' \in Nat
    BY <1>6 DEF SolveFails, TypeOK, FactorizeValues
  <2> QED
    BY <2>1, <2>2, <2>3, <2>4, <2>5, <2>6 DEF TypeOK
<1>7. CASE ChordStep
  <2>0. pc = "step" /\ UpdateLive(FALSE)
    BY <1>7 DEF ChordStep
  <2>1. out' \in SUBSET Circuit /\ ybus' \in SUBSET Circuit /\ volt' \in VoltState
    BY <2>0, AtCase, CasesIn DEF UpdateLive, InCase, TypeOK, VoltState
  <2>2. lastWasAdaptive' \in BOOLEAN
    BY <1>7, Zenon DEF ChordStep, TypeOK
  <2>3. inj' \in Source /\ jac' \in Source /\ factor' \in Source /\ met' \in SUBSET Source
    BY <1>7, <2>1 DEF ChordStep, TypeOK, Source, Live, VoltState, FastRhs, UpdateLive
  <2>4. /\ set' \in {Clamp(s) : s \in Settings} /\ wave' \in 0 .. MaxWaves
        /\ batch' \in Seq(SUBSET Circuit) /\ k' \in 0 .. Len(batch')
        /\ pc' \in {"idle", "analyze", "start", "factorize", "step", "refactor",
                    "refactorPoor", "finish", "overlay", "shown", "given up"}
    BY <1>7, CasesIn, AtCase, WaveAssumption DEF ChordStep, TypeOK, InCase
  <2>5. /\ saved' \in [DOMAIN batch' -> VoltState] /\ mism' \in Residuals \cup {"open"}
        /\ status' \in [DOMAIN batch' -> [verdict : {"none", "conv", "left"}, it : Nat]]
    BY <1>7, CasesIn, AtCase, WaveAssumption DEF ChordStep, TypeOK, VoltState, FastRhs,
      UpdateLive
  <2>6. it' \in Nat /\ adaptive' \in Nat /\ sinceFactor' \in Nat /\ nfactor' \in Nat
    BY <1>7 DEF ChordStep, TypeOK
  <2> QED
    BY <2>1, <2>2, <2>3, <2>4, <2>5, <2>6 DEF TypeOK
<1>8. CASE Refactor
  <2>0. PICK ok \in BOOLEAN :
          /\ FactorizeValues(Live, ok)
          /\ IF ok
             THEN CountsRefactor(pc = "refactorPoor") /\ pc' = "step" /\ it' = it + 1
             ELSE pc' = "finish" /\ UNCHANGED <<it, adaptive, sinceFactor, lastWasAdaptive>>
    BY <1>8, Zenon DEF Refactor
  <2>1. out' \in SUBSET Circuit /\ ybus' \in SUBSET Circuit /\ volt' \in VoltState
    BY <1>8, ToggledIn, CasesIn, AtCase, WaveAssumption DEF Refactor, TypeOK, InCase,
      netVars, VoltState
  <2>2. lastWasAdaptive' \in BOOLEAN
    BY <1>8, Zenon DEF Refactor, TypeOK, CountsRefactor
  <2>3. inj' \in Source /\ jac' \in Source /\ factor' \in Source /\ met' \in SUBSET Source
    BY <1>8, <2>0, <2>1 DEF Refactor, TypeOK, Source, Live, Nothing, Foreign, VoltState,
      FactorizeValues
  <2>4. /\ set' \in {Clamp(s) : s \in Settings} /\ wave' \in 0 .. MaxWaves
        /\ batch' \in Seq(SUBSET Circuit) /\ k' \in 0 .. Len(batch')
        /\ pc' \in {"idle", "analyze", "start", "factorize", "step", "refactor",
                    "refactorPoor", "finish", "overlay", "shown", "given up"}
    BY <1>8, CasesIn, AtCase, WaveAssumption DEF Refactor, TypeOK, InCase
  <2>5. /\ saved' \in [DOMAIN batch' -> VoltState] /\ mism' \in Residuals \cup {"open"}
        /\ status' \in [DOMAIN batch' -> [verdict : {"none", "conv", "left"}, it : Nat]]
    BY <1>8, CasesIn, AtCase, WaveAssumption DEF Refactor, TypeOK, netVars, VoltState
  <2>6. it' \in Nat /\ adaptive' \in Nat /\ sinceFactor' \in Nat /\ nfactor' \in Nat
    <3>1. nfactor' \in Nat
      BY <2>0, Values DEF FactorizeValues
    <3>2. CASE ok
      BY <2>0, <3>1, <3>2, Values DEF CountsRefactor
    <3>3. CASE ~ok
      BY <2>0, <3>1, <3>3, Values
    <3> QED
      BY <3>2, <3>3
  <2> QED
    BY <2>1, <2>2, <2>3, <2>4, <2>5, <2>6 DEF TypeOK
<1>9. CASE ExactStep
  <2>1. out' \in SUBSET Circuit /\ ybus' \in SUBSET Circuit /\ volt' \in VoltState
    BY <1>9, ToggledIn, CasesIn, AtCase, WaveAssumption DEF ExactStep, TypeOK, InCase,
      UpdateLive, VoltState
  <2>2. lastWasAdaptive' \in BOOLEAN
    BY <1>9, Zenon DEF ExactStep, TypeOK
  <2>3. inj' \in Source /\ jac' \in Source /\ factor' \in Source /\ met' \in SUBSET Source
    BY <1>9, <2>1 DEF ExactStep, TypeOK, Source, Live, VoltState, FastRhs, UpdateLive
  <2>4. /\ set' \in {Clamp(s) : s \in Settings} /\ wave' \in 0 .. MaxWaves
        /\ batch' \in Seq(SUBSET Circuit) /\ k' \in 0 .. Len(batch')
        /\ pc' \in {"idle", "analyze", "start", "factorize", "step", "refactor",
                    "refactorPoor", "finish", "overlay", "shown", "given up"}
    BY <1>9, CasesIn, AtCase, WaveAssumption DEF ExactStep, TypeOK, InCase
  <2>5. /\ saved' \in [DOMAIN batch' -> VoltState] /\ mism' \in Residuals \cup {"open"}
        /\ status' \in [DOMAIN batch' -> [verdict : {"none", "conv", "left"}, it : Nat]]
    BY <1>9, CasesIn, AtCase, WaveAssumption DEF ExactStep, TypeOK, VoltState, FastRhs,
      UpdateLive
  <2>6. it' \in Nat /\ adaptive' \in Nat /\ sinceFactor' \in Nat /\ nfactor' \in Nat
    BY <1>9 DEF ExactStep, TypeOK
  <2> QED
    BY <2>1, <2>2, <2>3, <2>4, <2>5, <2>6 DEF TypeOK
<1>10. CASE FinishLive
  <2>1. out' \in SUBSET Circuit /\ ybus' \in SUBSET Circuit /\ volt' \in VoltState
    BY <1>10, ToggledIn, CasesIn, AtCase, WaveAssumption DEF FinishLive, TypeOK, InCase,
      LocalSetYBus, VoltState
  <2>2. lastWasAdaptive' \in BOOLEAN
    BY <1>10, Zenon DEF FinishLive, TypeOK, engineVars
  <2>3. inj' \in Source /\ jac' \in Source /\ factor' \in Source /\ met' \in SUBSET Source
    BY <1>10, <2>1 DEF FinishLive, TypeOK, engineVars, Source, VoltState
  <2>4. /\ set' \in {Clamp(s) : s \in Settings} /\ wave' \in 0 .. MaxWaves
        /\ batch' \in Seq(SUBSET Circuit)
        /\ pc' \in {"idle", "analyze", "start", "factorize", "step", "refactor",
                    "refactorPoor", "finish", "overlay", "shown", "given up"}
    BY <1>10, CasesIn, AtCase, WaveAssumption DEF FinishLive, TypeOK, InCase, engineVars,
      More
  <2>7. batch' = batch /\ k' \in {k + 1, 0} /\ (k' = k + 1 => k < Len(batch))
    BY <1>10, CasesIn, AtCase DEF FinishLive, More, TypeOK, InCase
  <2>8. k' \in 0 .. Len(batch')
    BY <2>7, CasesIn, Values
  <2>5. /\ saved' \in [DOMAIN batch' -> VoltState] /\ mism' \in Residuals \cup {"open"}
        /\ status' \in [DOMAIN batch' -> [verdict : {"none", "conv", "left"}, it : Nat]]
    BY <1>10, CasesIn, AtCase, WaveAssumption DEF FinishLive, TypeOK, engineVars, VoltState,
      SaveCase
  <2>6. it' \in Nat /\ adaptive' \in Nat /\ sinceFactor' \in Nat /\ nfactor' \in Nat
    BY <1>10 DEF FinishLive, TypeOK, engineVars
  <2> QED
    BY <2>1, <2>2, <2>3, <2>4, <2>5, <2>6, <2>8 DEF TypeOK
<1>11. ASSUME NEW j \in DOMAIN batch, ApplyCaseForOutput(j) PROVE TypeOK'
  <2>1. out' \in SUBSET Circuit /\ ybus' \in SUBSET Circuit /\ volt' \in VoltState
    BY <1>11, ToggledIn, CasesIn, AtCase, WaveAssumption DEF ApplyCaseForOutput, TypeOK,
      InCase, LocalSetYBus, VoltState
  <2>2. lastWasAdaptive' \in BOOLEAN
    BY <1>11, Zenon DEF ApplyCaseForOutput, TypeOK
  <2>3. inj' \in Source /\ jac' \in Source /\ factor' \in Source /\ met' \in SUBSET Source
    BY <1>11, <2>1 DEF ApplyCaseForOutput, TypeOK, Source, Live, VoltState
  <2>4. /\ set' \in {Clamp(s) : s \in Settings} /\ wave' \in 0 .. MaxWaves
        /\ batch' \in Seq(SUBSET Circuit) /\ k' \in 0 .. Len(batch')
        /\ pc' \in {"idle", "analyze", "start", "factorize", "step", "refactor",
                    "refactorPoor", "finish", "overlay", "shown", "given up"}
    BY <1>11, CasesIn, AtCase, WaveAssumption DEF ApplyCaseForOutput, TypeOK, InCase
  <2>5. /\ saved' \in [DOMAIN batch' -> VoltState] /\ mism' \in Residuals \cup {"open"}
        /\ status' \in [DOMAIN batch' -> [verdict : {"none", "conv", "left"}, it : Nat]]
    BY <1>11, CasesIn, AtCase, WaveAssumption DEF ApplyCaseForOutput, TypeOK, VoltState
  <2>6. it' \in Nat /\ adaptive' \in Nat /\ sinceFactor' \in Nat /\ nfactor' \in Nat
    BY <1>11 DEF ApplyCaseForOutput, TypeOK
  <2> QED
    BY <2>1, <2>2, <2>3, <2>4, <2>5, <2>6 DEF TypeOK
<1>12. CASE ClearCaseForOutput
  <2>1. out' \in SUBSET Circuit /\ ybus' \in SUBSET Circuit /\ volt' \in VoltState
    BY <1>12, ToggledIn, CasesIn, AtCase, WaveAssumption DEF ClearCaseForOutput, TypeOK,
      InCase, LocalSetYBus, VoltState
  <2>2. lastWasAdaptive' \in BOOLEAN
    BY <1>12, Zenon DEF ClearCaseForOutput, TypeOK, engineVars
  <2>3. inj' \in Source /\ jac' \in Source /\ factor' \in Source /\ met' \in SUBSET Source
    BY <1>12, <2>1 DEF ClearCaseForOutput, TypeOK, engineVars, Source, VoltState
  <2>4. /\ set' \in {Clamp(s) : s \in Settings} /\ wave' \in 0 .. MaxWaves
        /\ batch' \in Seq(SUBSET Circuit) /\ k' \in 0 .. Len(batch')
        /\ pc' \in {"idle", "analyze", "start", "factorize", "step", "refactor",
                    "refactorPoor", "finish", "overlay", "shown", "given up"}
    BY <1>12, CasesIn, AtCase, WaveAssumption DEF ClearCaseForOutput, TypeOK, InCase,
      engineVars
  <2>5. /\ saved' \in [DOMAIN batch' -> VoltState] /\ mism' \in Residuals \cup {"open"}
        /\ status' \in [DOMAIN batch' -> [verdict : {"none", "conv", "left"}, it : Nat]]
    BY <1>12, CasesIn, AtCase, WaveAssumption DEF ClearCaseForOutput, TypeOK, engineVars,
      VoltState
  <2>6. it' \in Nat /\ adaptive' \in Nat /\ sinceFactor' \in Nat /\ nfactor' \in Nat
    BY <1>12 DEF ClearCaseForOutput, TypeOK, engineVars
  <2> QED
    BY <2>1, <2>2, <2>3, <2>4, <2>5, <2>6 DEF TypeOK
<1>13. CASE OverlaysDone
  <2>1. out' \in SUBSET Circuit /\ ybus' \in SUBSET Circuit /\ volt' \in VoltState
    BY <1>13, ToggledIn, CasesIn, AtCase, WaveAssumption DEF OverlaysDone, TypeOK, InCase,
      RestoreBaseState, Start, VoltState
  <2>2. lastWasAdaptive' \in BOOLEAN
    BY <1>13, Zenon DEF OverlaysDone, TypeOK, engineVars
  <2>3. inj' \in Source /\ jac' \in Source /\ factor' \in Source /\ met' \in SUBSET Source
    BY <1>13, <2>1 DEF OverlaysDone, TypeOK, engineVars, Source, VoltState
  <2>4. /\ set' \in {Clamp(s) : s \in Settings} /\ wave' \in 0 .. MaxWaves
        /\ batch' \in Seq(SUBSET Circuit) /\ k' \in 0 .. Len(batch')
        /\ pc' \in {"idle", "analyze", "start", "factorize", "step", "refactor",
                    "refactorPoor", "finish", "overlay", "shown", "given up"}
    BY <1>13, CasesIn, AtCase, WaveAssumption DEF OverlaysDone, TypeOK, InCase, engineVars
  <2>5. /\ saved' \in [DOMAIN batch' -> VoltState] /\ mism' \in Residuals \cup {"open"}
        /\ status' \in [DOMAIN batch' -> [verdict : {"none", "conv", "left"}, it : Nat]]
    BY <1>13, CasesIn, AtCase, WaveAssumption DEF OverlaysDone, TypeOK, engineVars,
      VoltState
  <2>6. it' \in Nat /\ adaptive' \in Nat /\ sinceFactor' \in Nat /\ nfactor' \in Nat
    BY <1>13 DEF OverlaysDone, TypeOK, engineVars
  <2> QED
    BY <2>1, <2>2, <2>3, <2>4, <2>5, <2>6 DEF TypeOK
<1>14. CASE OrdinarySolve
  <2>1. out' \in SUBSET Circuit /\ ybus' \in SUBSET Circuit /\ volt' \in VoltState
    BY <1>14, ToggledIn, CasesIn, AtCase, WaveAssumption DEF OrdinarySolve, TypeOK, InCase,
      VoltState, Foreign
  <2>2. lastWasAdaptive' \in BOOLEAN
    BY <1>14, Zenon DEF OrdinarySolve, TypeOK
  <2>3. inj' \in Source /\ jac' \in Source /\ factor' \in Source /\ met' \in SUBSET Source
    BY <1>14, <2>1 DEF OrdinarySolve, TypeOK, Source, Nothing, Foreign, VoltState
  <2>4. /\ set' \in {Clamp(s) : s \in Settings} /\ wave' \in 0 .. MaxWaves
        /\ batch' \in Seq(SUBSET Circuit) /\ k' \in 0 .. Len(batch')
        /\ pc' \in {"idle", "analyze", "start", "factorize", "step", "refactor",
                    "refactorPoor", "finish", "overlay", "shown", "given up"}
    BY <1>14, CasesIn, AtCase, WaveAssumption DEF OrdinarySolve, TypeOK, InCase
  <2>5. /\ saved' \in [DOMAIN batch' -> VoltState] /\ mism' \in Residuals \cup {"open"}
        /\ status' \in [DOMAIN batch' -> [verdict : {"none", "conv", "left"}, it : Nat]]
    BY <1>14, CasesIn, AtCase, WaveAssumption DEF OrdinarySolve, TypeOK, VoltState
  <2>6. it' \in Nat /\ adaptive' \in Nat /\ sinceFactor' \in Nat /\ nfactor' \in Nat
    BY <1>14 DEF OrdinarySolve, TypeOK
  <2> QED
    BY <2>1, <2>2, <2>3, <2>4, <2>5, <2>6 DEF TypeOK
<1>15. CASE WaveFails
  <2>1. out' \in SUBSET Circuit /\ ybus' \in SUBSET Circuit /\ volt' \in VoltState
    <3>1. out' = Toggled(out, Touched, TRUE) /\ ybus' \in {out', ybus} /\ volt' \in {volt, Start}
      BY <1>15 DEF WaveFails, RestoreBaseState
    <3>2. out' \in SUBSET Circuit
      BY <3>1, CasesIn, ToggledIn DEF TypeOK
    <3> QED
      BY <3>1, <3>2, Values
  <2>2. lastWasAdaptive' \in BOOLEAN
    BY <1>15, Zenon DEF WaveFails, TypeOK, engineVars
  <2>3. inj' \in Source /\ jac' \in Source /\ factor' \in Source /\ met' \in SUBSET Source
    BY <1>15, <2>1 DEF WaveFails, TypeOK, engineVars, Source, VoltState
  <2>4. /\ set' \in {Clamp(s) : s \in Settings} /\ wave' \in 0 .. MaxWaves
        /\ batch' \in Seq(SUBSET Circuit) /\ k' \in 0 .. Len(batch')
        /\ pc' \in {"idle", "analyze", "start", "factorize", "step", "refactor",
                    "refactorPoor", "finish", "overlay", "shown", "given up"}
    BY <1>15, CasesIn, AtCase, WaveAssumption DEF WaveFails, TypeOK, InCase, engineVars
  <2>5. /\ saved' \in [DOMAIN batch' -> VoltState] /\ mism' \in Residuals \cup {"open"}
        /\ status' \in [DOMAIN batch' -> [verdict : {"none", "conv", "left"}, it : Nat]]
    BY <1>15, CasesIn, AtCase, WaveAssumption DEF WaveFails, TypeOK, engineVars, Start,
      VoltState
  <2>6. it' \in Nat /\ adaptive' \in Nat /\ sinceFactor' \in Nat /\ nfactor' \in Nat
    BY <1>15 DEF WaveFails, TypeOK, engineVars
  <2> QED
    BY <2>1, <2>2, <2>3, <2>4, <2>5, <2>6 DEF TypeOK
<1>16. CASE UNCHANGED vars
  BY <1>16 DEF vars, netVars, engineVars, TypeOK
<1> QED
  BY <1>1, <1>2, <1>3, <1>4, <1>5, <1>6, <1>7, <1>8, <1>9, <1>10, <1>11, <1>12, <1>13,
    <1>14, <1>15, <1>16 DEF Next

(* The outages of a wave do not add up: whatever a case took out is back   *)
(* before the next one starts.                                             *)
LEMMA TopologyStep ==
  ASSUME TypeOK, TopologyInv, [Next]_vars
  PROVE  TopologyInv'
<1>1. CASE BeginWave
  BY <1>1, WaveAssumption DEF BeginWave, TypeOK, TopologyInv, InCase, CaseOut, Touched,
    Toggled, RestoreBaseState
<1>2. CASE Analyze
  BY <1>2, WaveAssumption DEF Analyze, TypeOK, TopologyInv, InCase, netVars, CaseOut
<1>3. CASE AssembleLive
  BY <1>3, WaveAssumption DEF AssembleLive, TypeOK, TopologyInv, InCase, Live, CaseOut,
    Toggled, LocalSetYBus, FastRhs, WithinTol
<1>4. CASE Factorize
  BY <1>4, WaveAssumption DEF Factorize, TypeOK, TopologyInv, InCase, netVars, CaseOut,
    FactorizeValues
<1>5. CASE StepsUsed
  BY <1>5, WaveAssumption DEF StepsUsed, TypeOK, TopologyInv, InCase, netVars, engineVars,
    CaseOut
<1>6. CASE SolveFails
  BY <1>6, WaveAssumption DEF SolveFails, TypeOK, TopologyInv, InCase, netVars, CaseOut,
    FactorizeValues
<1>7. CASE ChordStep
  BY <1>7, WaveAssumption DEF ChordStep, TypeOK, TopologyInv, InCase, Live, CaseOut,
    FastRhs, UpdateLive, WithinTol
<1>8. CASE Refactor
  BY <1>8, WaveAssumption DEF Refactor, TypeOK, TopologyInv, InCase, netVars, Live, CaseOut,
    FactorizeValues
<1>9. CASE ExactStep
  BY <1>9, WaveAssumption DEF ExactStep, TypeOK, TopologyInv, InCase, Live, CaseOut,
    FastRhs, UpdateLive, WithinTol
<1>10. CASE FinishLive
  <2>1. k \in DOMAIN batch /\ out = CaseOut(k) /\ ybus = out
    BY <1>10 DEF FinishLive, TopologyInv, InCase
  <2>2. out' = BaseOut /\ ybus' = BaseOut /\ batch' = batch
    BY <1>10, <2>1 DEF FinishLive, LocalSetYBus, Toggled, CaseOut
  <2>3. \/ pc' = "start" /\ k' = k + 1 /\ k < Len(batch)
        \/ pc' = "overlay"
    BY <1>10 DEF FinishLive, More
  <2>4. pc' = "start" => k' \in DOMAIN batch'
    BY <2>1, <2>2, <2>3, CasesIn, Values
  <2> QED
    BY <2>2, <2>3, <2>4 DEF TopologyInv, InCase
<1>11. ASSUME NEW j \in DOMAIN batch, ApplyCaseForOutput(j) PROVE TopologyInv'
  BY <1>11, WaveAssumption DEF ApplyCaseForOutput, TypeOK, TopologyInv, InCase, Live,
    CaseOut, Toggled, LocalSetYBus
<1>12. CASE ClearCaseForOutput
  BY <1>12, WaveAssumption DEF ClearCaseForOutput, TypeOK, TopologyInv, InCase, engineVars,
    CaseOut, Toggled, LocalSetYBus
<1>13. CASE OverlaysDone
  BY <1>13, WaveAssumption DEF OverlaysDone, TypeOK, TopologyInv, InCase, engineVars,
    CaseOut, Touched, Toggled, RestoreBaseState
<1>14. CASE OrdinarySolve
  BY <1>14, WaveAssumption DEF OrdinarySolve, TypeOK, TopologyInv, InCase, CaseOut
<1>15. CASE WaveFails
  BY <1>15, WaveAssumption DEF WaveFails, TypeOK, TopologyInv, InCase, engineVars, CaseOut,
    Touched, Toggled, RestoreBaseState
<1>16. CASE UNCHANGED vars
  BY <1>16 DEF TopologyInv, InCase, vars, netVars, engineVars, CaseOut
<1> QED
  BY <1>1, <1>2, <1>3, <1>4, <1>5, <1>6, <1>7, <1>8, <1>9, <1>10, <1>11, <1>12, <1>13,
    <1>14, <1>15, <1>16 DEF Next

(* What a case computes with stays its own: a Jacobian or factors that it  *)
(* keeps are of its circuits, and of a voltage state it has been in.       *)
LEMMA SourceStep ==
  ASSUME TypeOK, TopologyInv, SourceInv, [Next]_vars
  PROVE  SourceInv'
<1>1. CASE BeginWave
  BY <1>1, Settled DEF BeginWave, TypeOK, TopologyInv, SourceInv, InCase, OfThisCase,
    VoltState, Start, Live, CaseOut, Touched, Toggled, RestoreBaseState
<1>2. CASE Analyze
  <2>1. k = 0 /\ k' = 1 /\ pc' = "start" /\ batch' = batch /\ saved' = saved
    BY <1>2 DEF Analyze, netVars, TopologyInv
  <2>2. \A j \in DOMAIN batch : j > 0 => saved[j] = Start
    BY <1>2, <2>1 DEF Analyze, SourceInv
  <2>3. saved[1] = Start /\ \A j \in DOMAIN batch : j > 1 => saved[j] = Start
    BY <2>2, CasesIn, AtCase, <1>2 DEF Analyze
  <2> QED
    BY <2>1, <2>3 DEF SourceInv, InCase
<1>3. CASE AssembleLive
  BY <1>3, Settled DEF AssembleLive, TypeOK, TopologyInv, SourceInv, InCase, OfThisCase,
    VoltState, Start, Live, CaseOut, Toggled, LocalSetYBus, FastRhs, WithinTol
<1>4. CASE Factorize
  BY <1>4, Settled DEF Factorize, TypeOK, TopologyInv, SourceInv, InCase, OfThisCase,
    VoltState, Start, NeedsFactor, netVars, Live, CaseOut, FactorizeValues
<1>5. CASE StepsUsed
  BY <1>5, Settled DEF StepsUsed, TypeOK, TopologyInv, SourceInv, InCase, OfThisCase,
    VoltState, Start, netVars, engineVars, Live, CaseOut
<1>6. CASE SolveFails
  BY <1>6, Settled DEF SolveFails, TypeOK, TopologyInv, SourceInv, InCase, OfThisCase,
    VoltState, Start, netVars, Live, CaseOut, FactorizeValues
<1>7. CASE ChordStep
  <2>1. /\ pc = "step" /\ set.chord /\ set' = set /\ batch' = batch /\ saved' = saved
        /\ k' = k /\ factor' = factor /\ jac' = jac /\ out' = out
        /\ volt' = <<k, volt[2] + 1>> /\ inj' = Live'
        /\ pc' \in {"step", "refactor", "refactorPoor", "finish"}
    BY <1>7 DEF ChordStep, UpdateLive, FastRhs
  <2>2. OfThisCase(jac) /\ OfThisCase(factor)
        /\ \A j \in DOMAIN batch : j > k => saved[j] = Start
    BY <2>1 DEF SourceInv, InCase
  <2>3. /\ volt[2] \in Nat /\ volt'[1] = k /\ volt'[2] = volt[2] + 1
        /\ jac[1][2] \in Nat /\ factor[1][2] \in Nat
    BY <2>1, Values DEF TypeOK, Source, VoltState
  <2>4. OfThisCase(jac)' /\ OfThisCase(factor)'
    BY <2>1, <2>2, <2>3 DEF OfThisCase
  <2> QED
    BY <2>1, <2>2, <2>3, <2>4 DEF SourceInv, InCase
<1>8. CASE Refactor
  <2>1. /\ pc \in {"refactor", "refactorPoor"} /\ set' = set /\ batch' = batch /\ saved' = saved
        /\ k' = k /\ volt' = volt /\ ybus' = ybus /\ out' = out /\ inj' = inj /\ jac' = Live
        /\ pc' = "finish" \/ (pc' = "step" /\ factor' = Live)
    BY <1>8 DEF Refactor, netVars, FactorizeValues
  <2>2. /\ set.chord /\ inj = Live /\ (volt = Start \/ volt[1] = k)
        /\ \A j \in DOMAIN batch : j > k => saved[j] = Start
        /\ ybus = out
    BY <2>1 DEF SourceInv, InCase, TopologyInv
  <2>3. volt[2] \in Nat
    BY Values DEF VoltState
  <2>4. Live' = Live /\ inj' = Live'
    BY <2>1, <2>2 DEF Live
  <2>5. OfThisCase(jac)' /\ (pc' = "step" => OfThisCase(factor)')
    BY <2>1, <2>2, <2>3 DEF OfThisCase, Live
  <2> QED
    BY <2>1, <2>2, <2>4, <2>5 DEF SourceInv, InCase
<1>9. CASE ExactStep
  <2>1. /\ pc = "step" /\ ~set.chord /\ set' = set /\ batch' = batch /\ saved' = saved
        /\ k' = k /\ out' = out /\ ybus' = ybus
        /\ volt' = <<k, volt[2] + 1>> /\ inj' = Live' /\ jac' = Live'
        /\ pc' \in {"step", "finish"}
    BY <1>9 DEF ExactStep, UpdateLive, FastRhs
  <2>2. ybus = out /\ \A j \in DOMAIN batch : j > k => saved[j] = Start
    BY <2>1 DEF SourceInv, InCase, TopologyInv
  <2>3. volt[2] \in Nat /\ volt'[1] = k /\ volt'[2] \in Nat
    BY <2>1, Values DEF VoltState
  <2>4. OfThisCase(jac)'
    BY <2>1, <2>2, <2>3 DEF OfThisCase, Live
  <2> QED
    BY <2>1, <2>2, <2>3, <2>4 DEF SourceInv, InCase
<1>10. CASE FinishLive
  <2>1. /\ pc = "finish" /\ k \in DOMAIN batch /\ batch' = batch
        /\ saved' = [saved EXCEPT ![k] = volt] /\ saved \in [DOMAIN batch -> VoltState]
    BY <1>10, AtCase DEF FinishLive, SaveCase, InCase, TypeOK
  <2>2. \/ pc' = "start" /\ k' = k + 1 /\ k < Len(batch)
        \/ pc' = "overlay"
    BY <1>10 DEF FinishLive, More
  <2>3. \A j \in DOMAIN batch : j > k => saved'[j] = Start
    BY <2>1, Values, CasesIn DEF SourceInv, InCase
  <2>4. ASSUME pc' = "start"
        PROVE  saved'[k'] = Start /\ \A j \in DOMAIN batch' : j > k' => saved'[j] = Start
    <3>1. k' = k + 1 /\ k' \in DOMAIN batch /\ k' > k
      <4>1. k' = k + 1 /\ k < Len(batch)
        BY <2>2, <2>4
      <4>2. k \in 1 .. Len(batch) /\ Len(batch) \in Nat /\ DOMAIN batch = 1 .. Len(batch)
        BY <2>1, CasesIn
      <4> QED
        BY <4>1, <4>2
    <3>2. \A j \in DOMAIN batch' : j > k' => j > k
      BY <3>1, <2>1, Values, CasesIn
    <3> QED
      BY <2>1, <2>3, <3>1, <3>2
  <2> QED
    BY <2>2, <2>4 DEF SourceInv, InCase
<1>11. ASSUME NEW j \in DOMAIN batch, ApplyCaseForOutput(j) PROVE SourceInv'
  BY <1>11, Settled DEF ApplyCaseForOutput, TypeOK, TopologyInv, SourceInv, InCase,
    OfThisCase, VoltState, Start, Live, CaseOut, Toggled, LocalSetYBus
<1>12. CASE ClearCaseForOutput
  BY <1>12, Settled DEF ClearCaseForOutput, TypeOK, TopologyInv, SourceInv, InCase,
    OfThisCase, VoltState, Start, engineVars, Live, CaseOut, Toggled, LocalSetYBus
<1>13. CASE OverlaysDone
  BY <1>13, Settled DEF OverlaysDone, TypeOK, TopologyInv, SourceInv, InCase, OfThisCase,
    VoltState, Start, engineVars, Live, CaseOut, Touched, Toggled, RestoreBaseState
<1>14. CASE OrdinarySolve
  BY <1>14, Settled DEF OrdinarySolve, TypeOK, TopologyInv, SourceInv, InCase, OfThisCase,
    VoltState, Start, Foreign, Live, CaseOut
<1>15. CASE WaveFails
  BY <1>15, Settled DEF WaveFails, TypeOK, TopologyInv, SourceInv, InCase, OfThisCase,
    VoltState, Start, engineVars, Live, CaseOut, Touched, Toggled, RestoreBaseState
<1>16. CASE UNCHANGED vars
  BY <1>16 DEF SourceInv, InCase, OfThisCase, vars, netVars, engineVars, Live
<1> QED
  BY <1>1, <1>2, <1>3, <1>4, <1>5, <1>6, <1>7, <1>8, <1>9, <1>10, <1>11, <1>12, <1>13,
    <1>14, <1>15, <1>16 DEF Next

(* A verdict rests on the residual of the state that is saved, provided    *)
(* that every entry of a residual is a number.                             *)
LEMMA VerdictStep ==
  ASSUME "nan" \notin Residuals, TypeOK, TopologyInv, SourceInv, VerdictInv, [Next]_vars
  PROVE  VerdictInv'
<1>1. CASE BeginWave
  BY <1>1, WaveAssumption DEF BeginWave, TypeOK, TopologyInv, SourceInv, VerdictInv, InCase,
    NoStatus, Live, CaseOut, Touched, Toggled, RestoreBaseState
<1>2. CASE Analyze
  BY <1>2, WaveAssumption DEF Analyze, TypeOK, TopologyInv, SourceInv, VerdictInv, InCase,
    netVars, Live, CaseOut
<1>3. CASE AssembleLive
  BY <1>3, WaveAssumption DEF AssembleLive, TypeOK, TopologyInv, SourceInv, VerdictInv,
    InCase, Live, CaseOut, Toggled, LocalSetYBus, FastRhs, WithinTol
<1>4. CASE Factorize
  BY <1>4, WaveAssumption DEF Factorize, TypeOK, TopologyInv, SourceInv, VerdictInv, InCase,
    netVars, Live, CaseOut, FactorizeValues
<1>5. CASE StepsUsed
  BY <1>5, WaveAssumption DEF StepsUsed, TypeOK, TopologyInv, SourceInv, VerdictInv, InCase,
    netVars, engineVars, Live, CaseOut
<1>6. CASE SolveFails
  BY <1>6, WaveAssumption DEF SolveFails, TypeOK, TopologyInv, SourceInv, VerdictInv,
    InCase, netVars, Live, CaseOut, FactorizeValues
<1>7. CASE ChordStep
  BY <1>7, WaveAssumption DEF ChordStep, TypeOK, TopologyInv, SourceInv, VerdictInv, InCase,
    Live, CaseOut, FastRhs, UpdateLive, WithinTol
<1>8. CASE Refactor
  BY <1>8, WaveAssumption DEF Refactor, TypeOK, TopologyInv, SourceInv, VerdictInv, InCase,
    netVars, Live, CaseOut, FactorizeValues
<1>9. CASE ExactStep
  BY <1>9, WaveAssumption DEF ExactStep, TypeOK, TopologyInv, SourceInv, VerdictInv, InCase,
    Live, CaseOut, FastRhs, UpdateLive, WithinTol
<1>10. CASE FinishLive
  <2>1. /\ pc = "finish" /\ k \in DOMAIN batch /\ batch' = batch
        /\ saved' = [saved EXCEPT ![k] = volt] /\ saved \in [DOMAIN batch -> VoltState]
    BY <1>10, AtCase DEF FinishLive, SaveCase, InCase, TypeOK
  <2>2. \/ pc' = "start" /\ k' = k + 1 /\ k < Len(batch)
        \/ pc' = "overlay"
    BY <1>10 DEF FinishLive, More
  <2>3. /\ status' = [status EXCEPT ![k] =
                         [verdict |-> IF WithinTol(mism) THEN "conv" ELSE "left", it |-> it]]
        /\ status \in [DOMAIN batch -> [verdict : {"none", "conv", "left"}, it : Nat]]
        /\ met' = met /\ DOMAIN batch' = DOMAIN batch
        /\ \A j \in DOMAIN batch : CaseOut(j)' = CaseOut(j)
    BY <1>10, <2>1 DEF FinishLive, engineVars, TypeOK, CaseOut
  <2>4. WithinTol(mism) => <<volt, CaseOut(k)>> \in met
    BY <2>1, WaveAssumption DEF WithinTol, VerdictInv, TopologyInv, InCase, Live
  <2>5. \A j \in DOMAIN batch : status'[j].verdict = "conv" => <<saved'[j], CaseOut(j)>> \in met
    BY <2>1, <2>3, <2>4 DEF VerdictInv
  <2>6. \A j \in DOMAIN batch : j <= k => status'[j].verdict # "none"
    <3>1. status'[k].verdict # "none"
      BY <2>1, <2>3
    <3>2. \A j \in DOMAIN batch : j < k => status'[j].verdict # "none"
      BY <2>1, <2>3, Values, CasesIn DEF VerdictInv, InCase
    <3> QED
      BY <3>1, <3>2, Values, CasesIn
  <2>7. pc' = "start" => \A j \in DOMAIN batch' : j < k' => status'[j].verdict # "none"
    BY <2>1, <2>2, <2>6, Values, CasesIn
  <2>8. pc' = "overlay" => \A j \in DOMAIN batch' : status'[j].verdict # "none"
    <3>1. pc' = "overlay" => ~(k < Len(batch))
      BY <1>10 DEF FinishLive, More
    <3>2. \A j \in DOMAIN batch : ~(k < Len(batch)) => j <= k
      BY CasesIn, Values
    <3> QED
      BY <2>1, <2>6, <3>1, <3>2
  <2> QED
    BY <2>1, <2>2, <2>3, <2>5, <2>7, <2>8 DEF VerdictInv, InCase
<1>11. ASSUME NEW j \in DOMAIN batch, ApplyCaseForOutput(j) PROVE VerdictInv'
  BY <1>11, WaveAssumption DEF ApplyCaseForOutput, TypeOK, TopologyInv, SourceInv,
    VerdictInv, InCase, Live, CaseOut, Toggled, LocalSetYBus
<1>12. CASE ClearCaseForOutput
  BY <1>12, WaveAssumption DEF ClearCaseForOutput, TypeOK, TopologyInv, SourceInv,
    VerdictInv, InCase, engineVars, Live, CaseOut, Toggled, LocalSetYBus
<1>13. CASE OverlaysDone
  BY <1>13, WaveAssumption DEF OverlaysDone, TypeOK, TopologyInv, SourceInv, VerdictInv,
    InCase, engineVars, Live, CaseOut, Touched, Toggled, RestoreBaseState
<1>14. CASE OrdinarySolve
  BY <1>14, WaveAssumption DEF OrdinarySolve, TypeOK, TopologyInv, SourceInv, VerdictInv,
    InCase, Live, CaseOut
<1>15. CASE WaveFails
  BY <1>15, WaveAssumption DEF WaveFails, TypeOK, TopologyInv, SourceInv, VerdictInv,
    InCase, engineVars, Live, CaseOut, Touched, Toggled, RestoreBaseState
<1>16. CASE UNCHANGED vars
  BY <1>16 DEF VerdictInv, InCase, vars, netVars, engineVars, Live, CaseOut
<1> QED
  BY <1>1, <1>2, <1>3, <1>4, <1>5, <1>6, <1>7, <1>8, <1>9, <1>10, <1>11, <1>12, <1>13,
    <1>14, <1>15, <1>16 DEF Next

(* A case that has not made its last step may make one more. *)
LEMMA NotLast ==
  ASSUME TypeOK, ~LastStep
  PROVE  it < Steps
  BY Settled, Values DEF LastStep, Steps, Max2

(* The factorizations that one more case may make. *)
LEMMA Room ==
  ASSUME TypeOK
  PROVE  /\ (k - 1) * Steps \in Int /\ k * Steps \in Int
         /\ k * Steps = (k - 1) * Steps + Steps
<1>1. k \in Int /\ Steps \in Int
  BY Settled, Values
<1> HIDE DEF Steps
<1> QED
  BY <1>1

(* The counters of a case keep to their bounds: an adaptive factorization  *)
(* costs two steps, the poor one and the one that follows it.              *)
LEMMA CountStep ==
  ASSUME TypeOK, CountInv, [Next]_vars
  PROVE  CountInv'
<1>1. CASE BeginWave
  BY <1>1, Settled, Values DEF BeginWave, CountInv, InCase, Steps
<1>2. CASE Analyze
  BY <1>2, Settled, Values DEF Analyze, CountInv, InCase, netVars, Steps
<1>3. CASE AssembleLive
  <2>1. /\ set' = set /\ it' = 1 /\ adaptive' = 0 /\ sinceFactor' = 0 /\ lastWasAdaptive' = FALSE
        /\ pc' \in {"finish", "factorize", "step"}
        /\ Steps' = Steps
    BY <1>3 DEF AssembleLive, Steps
  <2> QED
    BY <2>1, Settled DEF CountInv, InCase
<1>4. CASE Factorize
  <2>1. /\ set' = set /\ Steps' = Steps
        /\ UNCHANGED <<it, adaptive, sinceFactor, lastWasAdaptive>>
        /\ pc = "factorize" /\ pc' \in {"step", "finish"}
    BY <1>4 DEF Factorize, Steps
  <2> QED
    BY <2>1, Settled, Values DEF CountInv, InCase
<1>5. CASE StepsUsed
  <2>1. /\ set' = set /\ Steps' = Steps
        /\ UNCHANGED <<it, adaptive, sinceFactor, lastWasAdaptive>>
        /\ pc = "step" /\ pc' \in {"finish"}
    BY <1>5 DEF StepsUsed, engineVars, Steps
  <2> QED
    BY <2>1, Settled, Values DEF CountInv, InCase
<1>6. CASE SolveFails
  <2>1. /\ set' = set /\ Steps' = Steps
        /\ UNCHANGED <<it, adaptive, sinceFactor, lastWasAdaptive>>
        /\ pc = "step" /\ pc' \in {"finish"}
    BY <1>6 DEF SolveFails, Steps
  <2> QED
    BY <2>1, Settled, Values DEF CountInv, InCase
<1>7. CASE ChordStep
  <2>1. /\ pc = "step" /\ set.chord /\ set' = set /\ Steps' = Steps /\ it < Steps
    BY <1>7, NotLast DEF ChordStep, Steps
  <2>2. /\ adaptive <= set.maxAdaptive /\ 2 * adaptive <= it /\ it >= 1
        /\ ~lastWasAdaptive => 2 * adaptive <= it - 1
        /\ set.every > 1 => sinceFactor < set.every
    BY <2>1 DEF CountInv, InCase
  <2>3. PICK poor \in BOOLEAN :
          \/ pc' = "finish" /\ it' = it + 1 /\ adaptive' = adaptive
          \/ pc' = "finish" /\ it' = it /\ adaptive' = adaptive
          \/ /\ ~TooPoor(poor)
             /\ pc' = IF poor THEN "refactorPoor" ELSE "refactor"
             /\ UNCHANGED <<it, adaptive, lastWasAdaptive>>
          \/ /\ ~Scheduled
             /\ pc' = "step" /\ it' = it + 1
             /\ sinceFactor' = sinceFactor + 1 /\ lastWasAdaptive' = FALSE
             /\ UNCHANGED adaptive
    BY <1>7 DEF ChordStep
  <2>4. CASE pc' = "finish" /\ it' \in {it, it + 1} /\ adaptive' = adaptive
    BY <2>1, <2>2, <2>4, Settled, Values DEF CountInv, InCase
  <2>5. CASE /\ ~TooPoor(poor)
             /\ pc' = IF poor THEN "refactorPoor" ELSE "refactor"
             /\ UNCHANGED <<it, adaptive, lastWasAdaptive>>
    <3>1. pc' = "refactorPoor" => ~lastWasAdaptive /\ adaptive < set.maxAdaptive
      BY <2>5, Settled, Values DEF TooPoor
    <3> QED
      BY <2>1, <2>2, <2>5, <3>1, Settled, Values DEF CountInv, InCase
  <2>6. CASE /\ ~Scheduled
             /\ pc' = "step" /\ it' = it + 1
             /\ sinceFactor' = sinceFactor + 1 /\ lastWasAdaptive' = FALSE
             /\ UNCHANGED adaptive
    <3>1. set.every > 1 => sinceFactor' < set.every
      BY <2>6, Settled, Values DEF Scheduled
    <3> QED
      BY <2>1, <2>2, <2>6, <3>1, Settled, Values DEF CountInv, InCase
  <2> QED
    BY <2>3, <2>4, <2>5, <2>6
<1>8. CASE Refactor
  <2>1. pc \in {"refactor", "refactorPoor"} /\ set' = set /\ Steps' = Steps
    BY <1>8 DEF Refactor, Steps
  <2>2. /\ adaptive <= set.maxAdaptive /\ 2 * adaptive <= it /\ it >= 1 /\ it < Steps
        /\ ~lastWasAdaptive => 2 * adaptive <= it - 1
        /\ pc = "refactorPoor" => ~lastWasAdaptive /\ adaptive < set.maxAdaptive
    BY <2>1 DEF CountInv, InCase
  <2>3. \/ CountsRefactor(pc = "refactorPoor") /\ pc' = "step" /\ it' = it + 1
        \/ pc' = "finish" /\ UNCHANGED <<it, adaptive, sinceFactor, lastWasAdaptive>>
    BY <1>8, Zenon DEF Refactor
  <2>4. CASE pc = "refactorPoor" /\ pc' = "step"
    <3>1. adaptive' = adaptive + 1 /\ sinceFactor' = 0 /\ lastWasAdaptive' /\ it' = it + 1
      BY <2>3, <2>4 DEF CountsRefactor
    <3> QED
      BY <2>1, <2>2, <2>4, <3>1, Settled, Values DEF CountInv, InCase
  <2>5. CASE pc = "refactor" /\ pc' = "step"
    <3>1. adaptive' = adaptive /\ sinceFactor' = 0 /\ it' = it + 1
      BY <2>3, <2>5, Values DEF CountsRefactor
    <3> QED
      BY <2>1, <2>2, <2>5, <3>1, Settled, Values DEF CountInv, InCase
  <2>6. CASE pc' = "finish"
    BY <2>1, <2>2, <2>3, <2>6, Settled, Values DEF CountInv, InCase
  <2> QED
    BY <2>1, <2>3, <2>4, <2>5, <2>6
<1>9. CASE ExactStep
  <2>1. /\ pc = "step" /\ ~set.chord /\ set' = set /\ Steps' = Steps /\ it < Steps
        /\ it' = it + 1 /\ UNCHANGED <<adaptive, sinceFactor, lastWasAdaptive>>
        /\ pc' \in {"step", "finish"}
    BY <1>9, NotLast DEF ExactStep, Steps
  <2> QED
    BY <2>1, Settled, Values DEF CountInv, InCase
<1>10. CASE FinishLive
  BY <1>10, Settled, Values DEF FinishLive, CountInv, InCase, engineVars, Steps
<1>11. ASSUME NEW j \in DOMAIN batch, ApplyCaseForOutput(j) PROVE CountInv'
  BY <1>11, Settled, Values DEF ApplyCaseForOutput, CountInv, InCase, Steps
<1>12. CASE ClearCaseForOutput
  BY <1>12, Settled, Values DEF ClearCaseForOutput, CountInv, InCase, engineVars, Steps
<1>13. CASE OverlaysDone
  BY <1>13, Settled, Values DEF OverlaysDone, CountInv, InCase, engineVars, Steps
<1>14. CASE OrdinarySolve
  BY <1>14, Settled, Values DEF OrdinarySolve, CountInv, InCase, Steps
<1>15. CASE WaveFails
  BY <1>15, Settled, Values DEF WaveFails, CountInv, InCase, engineVars, Steps
<1>16. CASE UNCHANGED vars
  BY <1>16 DEF CountInv, InCase, vars, netVars, engineVars, Steps
<1> QED
  BY <1>1, <1>2, <1>3, <1>4, <1>5, <1>6, <1>7, <1>8, <1>9, <1>10, <1>11, <1>12, <1>13,
    <1>14, <1>15, <1>16 DEF Next

(* A case factorizes at most once for each of its steps. *)
LEMMA FactorStep ==
  ASSUME TypeOK, SourceInv, CountInv, FactorInv, [Next]_vars
  PROVE  FactorInv'
<1>1. CASE BeginWave
  BY <1>1 DEF BeginWave, FactorInv, TopologyInv, Steps
<1>2. CASE Analyze
  <2>1. pc' = "start" /\ k' = 1 /\ nfactor' = 0 /\ Steps' = Steps
    BY <1>2 DEF Analyze, Steps
  <2> HIDE DEF Steps
  <2> QED
    BY <2>1, Settled DEF FactorInv
<1>3. CASE AssembleLive
  <2>1. /\ pc = "start" /\ set' = set /\ Steps' = Steps /\ k' = k /\ nfactor' = nfactor /\ it' = 1
        /\ pc' = "finish" \/ (set.chord /\ pc' = "factorize") \/ (~set.chord /\ pc' = "step")
    BY <1>3 DEF AssembleLive, Steps
  <2>2. nfactor <= (k - 1) * Steps
    BY <2>1 DEF FactorInv
  <2> HIDE DEF Steps
  <2> QED
    BY <2>1, <2>2, Settled, Values, Room DEF FactorInv
<1>4. CASE Factorize
  <2>1. /\ pc = "factorize" /\ set' = set /\ Steps' = Steps /\ k' = k /\ it' = it
        /\ nfactor' = nfactor + 1 /\ pc' \in {"step", "finish"}
    BY <1>4 DEF Factorize, NeedsFactor, FactorizeValues, Steps
  <2>2. nfactor <= (k - 1) * Steps /\ it = 1 /\ set.chord
    BY <2>1 DEF FactorInv, CountInv, SourceInv
  <2> HIDE DEF Steps
  <2> QED
    BY <2>1, <2>2, Settled, Values, Room DEF FactorInv
<1>5. CASE StepsUsed
  <2>1. /\ pc = "step" /\ Steps' = Steps /\ k' = k /\ nfactor' = nfactor /\ pc' = "finish"
    BY <1>5 DEF StepsUsed, engineVars, Steps
  <2>2. nfactor <= (k - 1) * Steps + it /\ it <= Steps
    BY <2>1, Settled, Values, Room DEF FactorInv, CountInv
  <2> HIDE DEF Steps
  <2> QED
    BY <2>1, <2>2, Settled, Values, Room DEF FactorInv
<1>6. CASE SolveFails
  <2>1. /\ pc = "step" /\ Steps' = Steps /\ k' = k /\ pc' = "finish" /\ it < Steps
        /\ nfactor' \in {nfactor, nfactor + 1}
    BY <1>6, NotLast DEF SolveFails, FactorizeValues, Steps
  <2>2. nfactor <= (k - 1) * Steps + it
    BY <2>1, Settled, Values, Room DEF FactorInv
  <2> HIDE DEF Steps
  <2> QED
    BY <2>1, <2>2, Settled, Values, Room DEF FactorInv
<1>7. CASE ChordStep
  <2>1. /\ pc = "step" /\ set.chord /\ set' = set /\ Steps' = Steps /\ k' = k
        /\ nfactor' = nfactor /\ it < Steps /\ it' \in {it, it + 1}
        /\ pc' \in {"step", "refactor", "refactorPoor", "finish"}
    BY <1>7, NotLast DEF ChordStep, Steps
  <2>2. nfactor <= (k - 1) * Steps + it
    BY <2>1 DEF FactorInv
  <2> HIDE DEF Steps
  <2> QED
    BY <2>1, <2>2, Settled, Values, Room DEF FactorInv
<1>8. CASE Refactor
  <2>1. /\ pc \in {"refactor", "refactorPoor"} /\ set' = set /\ Steps' = Steps /\ k' = k
        /\ nfactor' = nfactor + 1
        /\ (pc' = "step" /\ it' = it + 1) \/ pc' = "finish"
    BY <1>8 DEF Refactor, FactorizeValues, Steps
  <2>2. nfactor <= (k - 1) * Steps + it /\ it < Steps /\ set.chord
    BY <2>1 DEF FactorInv, CountInv, SourceInv
  <2> HIDE DEF Steps
  <2> QED
    BY <2>1, <2>2, Settled, Values, Room DEF FactorInv
<1>9. CASE ExactStep
  <2>1. /\ pc = "step" /\ ~set.chord /\ set' = set /\ Steps' = Steps /\ k' = k
        /\ nfactor' = nfactor + 1 /\ it < Steps /\ it' = it + 1
        /\ pc' \in {"step", "finish"}
    BY <1>9, NotLast DEF ExactStep, Steps
  <2>2. nfactor <= (k - 1) * Steps + it - 1
    BY <2>1 DEF FactorInv
  <2> HIDE DEF Steps
  <2> QED
    BY <2>1, <2>2, Settled, Values, Room DEF FactorInv
<1>10. CASE FinishLive
  <2>1. /\ pc = "finish" /\ nfactor' = nfactor /\ Steps' = Steps
        /\ (pc' = "start" /\ k' = k + 1) \/ pc' = "overlay"
    BY <1>10 DEF FinishLive, engineVars, Steps
  <2>2. nfactor <= k * Steps
    BY <2>1 DEF FactorInv
  <2>3. pc' = "start" => k' - 1 = k
    BY <2>1, Values
  <2> HIDE DEF Steps
  <2> QED
    BY <2>1, <2>2, <2>3 DEF FactorInv
<1>11. ASSUME NEW j \in DOMAIN batch, ApplyCaseForOutput(j) PROVE FactorInv'
  BY <1>11 DEF ApplyCaseForOutput, FactorInv, TopologyInv, Steps
<1>12. CASE ClearCaseForOutput
  BY <1>12 DEF ClearCaseForOutput, FactorInv, TopologyInv, engineVars, Steps
<1>13. CASE OverlaysDone
  BY <1>13 DEF OverlaysDone, FactorInv, TopologyInv, engineVars, Steps
<1>14. CASE OrdinarySolve
  BY <1>14 DEF OrdinarySolve, FactorInv, TopologyInv, Steps
<1>15. CASE WaveFails
  BY <1>15 DEF WaveFails, FactorInv, TopologyInv, engineVars, Steps
<1>16. CASE UNCHANGED vars
  BY <1>16 DEF FactorInv, vars, netVars, engineVars, Steps
<1> QED
  BY <1>1, <1>2, <1>3, <1>4, <1>5, <1>6, <1>7, <1>8, <1>9, <1>10, <1>11, <1>12, <1>13,
    <1>14, <1>15, <1>16 DEF Next

-----------------------------------------------------------------------------
(* The invariant holds at the start. *)
LEMMA InitIInv == Init => IInv /\ VerdictInv
<1> SUFFICES ASSUME Init PROVE IInv /\ VerdictInv
  OBVIOUS
<1>1. Start \in VoltState /\ Nothing \in Source /\ batch = <<>> /\ pc = "idle"
  BY DEF Init, Start, Nothing, Foreign, VoltState, Source
<1>2. batch \in Seq(SUBSET Circuit) /\ k \in 0 .. Len(batch) /\ DOMAIN batch = {}
  BY <1>1 DEF Init
<1>3. lastWasAdaptive \in BOOLEAN
  BY Zenon DEF Init
<1>4. /\ saved \in [DOMAIN batch -> VoltState]
      /\ status \in [DOMAIN batch -> [verdict : {"none", "conv", "left"}, it : Nat]]
  BY <1>2 DEF Init
<1>5. TypeOK
  BY <1>1, <1>2, <1>3, <1>4, WaveAssumption DEF Init, TypeOK
<1>6. TopologyInv /\ SourceInv /\ VerdictInv /\ FactorInv
  BY <1>1, <1>2 DEF Init, TopologyInv, SourceInv, VerdictInv, FactorInv, InCase
<1>7. CountInv
  BY <1>1, <1>5, Settled DEF Init, CountInv, InCase
<1> QED
  BY <1>5, <1>6, <1>7 DEF IInv

(* The conjunction of the parts is inductive. *)
THEOREM Inductive == Spec => []IInv
<1>1. Init => IInv
  BY InitIInv
<1>2. IInv /\ [Next]_vars => IInv'
  BY TypeStep, TopologyStep, SourceStep, CountStep, FactorStep DEF IInv
<1> QED
  BY <1>1, <1>2, PTL DEF Spec

(* Every variable keeps its type. *)
THEOREM TypeCorrect == Spec => []TypeOK
<1>1. IInv => TypeOK
  BY DEF IInv
<1> QED
  BY <1>1, Inductive, PTL

(* Whatever the wave, a Newton step is computed from its own case. *)
THEOREM StepAlwaysOwn == Spec => []StepIsOwn
<1>1. IInv => StepIsOwn
  <2> SUFFICES ASSUME IInv, pc = "step" PROVE StepIsOwn
    BY DEF StepIsOwn
  <2>1. out = CaseOut(k) /\ ybus = out /\ inj = Live
    BY DEF IInv, TopologyInv, SourceInv, InCase
  <2>2. OfThisCase(jac) /\ (~set.chord => jac = Live) /\ (set.chord => OfThisCase(factor))
    BY DEF IInv, SourceInv
  <2> QED
    BY <2>1, <2>2 DEF StepIsOwn, OfThisCase
<1> QED
  BY <1>1, Inductive, PTL

(* Outages never add up, and no circuit of the base is ever energized. *)
THEOREM BaseAlwaysBetween == Spec => []BaseBetweenCases
<1>1. IInv => BaseBetweenCases
  <2> SUFFICES ASSUME IInv PROVE BaseBetweenCases
    OBVIOUS
  <2>1. BaseOut \subseteq out
    <3>1. CASE InCase \/ pc = "shown"
      BY <3>1 DEF IInv, TopologyInv, CaseOut
    <3>2. CASE pc \in {"idle", "analyze", "start", "overlay", "given up"}
      BY <3>2 DEF IInv, TopologyInv
    <3> QED
      BY <3>1, <3>2 DEF IInv, TypeOK, InCase
  <2> QED
    BY <2>1 DEF IInv, TopologyInv, BaseBetweenCases
<1> QED
  BY <1>1, Inductive, PTL

(* Refactorizations keep to their budget, for any stride and any cap. *)
THEOREM BudgetAlwaysKept == Spec => []RefactorBudget
<1>1. IInv => RefactorBudget
  <2> SUFFICES ASSUME IInv PROVE RefactorBudget
    OBVIOUS
  <2>1. CountInv /\ FactorInv /\ TypeOK
    BY DEF IInv
  <2>2. 2 * adaptive <= Max2(2, it)
    BY <2>1, Values DEF CountInv, Max2
  <2> QED
    BY <2>1, <2>2 DEF CountInv, FactorInv, RefactorBudget, Steps
<1> QED
  BY <1>1, Inductive, PTL

(* Where every residual is a number, what converged solves its case, and   *)
(* what is overlaid for the output is that solution.                       *)
THEOREM VerdictAlwaysSolved ==
  ASSUME "nan" \notin Residuals
  PROVE  Spec => []VerdictIsSolved
<1>1. Init => VerdictInv
  BY InitIInv
<1>2. IInv /\ VerdictInv /\ [Next]_vars => VerdictInv'
  BY VerdictStep DEF IInv
<1>3. IInv /\ VerdictInv => VerdictIsSolved
  BY DEF IInv, TopologyInv, VerdictInv, VerdictIsSolved
<1> QED
  BY <1>1, <1>2, <1>3, Inductive, PTL DEF Spec

=============================================================================
