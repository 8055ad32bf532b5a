------------------------------ MODULE CADriver ------------------------------
(***************************************************************************)
(* The contingency loop of ca_driver.cpp on all ranks (groupSize 1).       *)
(* Every rank claims events from the task manager; in wave mode it claims  *)
(* up to WaveSize of them, sends the eligible ones through the batched     *)
(* solver as one wave, keeps the results that converged and need no        *)
(* controller action, and solves all others by the ordinary path.  Any     *)
(* part of the batched path may throw; the rank then gives that path up.   *)
(*                                                                         *)
(* TaskManager.tla has the detail of nextTask; here it hands out the next  *)
(* id, and returns false when all ranks have asked in vain.  What a case   *)
(* does to the network is Contingency.tla; here the network matters only   *)
(* through the cached Ybus and Sbus, which a saved state is overlaid on.   *)
(* A rank claims ids in ascending order, so that the lists of events it    *)
(* keeps in the order of the claims are sets here, served from the least.  *)
(* Solver, eligibility screen and controllers are choices of an outcome.   *)
(***************************************************************************)
EXTENDS Integers, Sequences, FiniteSets

CONSTANTS
  Rank,        \* the processes of the world communicator
  Devices,     \* the ranks on which a CUDA device is visible
  NTasks,      \* events.size()
  WaveSize,    \* batchWaveSize: at least 1
  Batchable,   \* the events the eligibility screen accepts
  Solvable,    \* elements found, reference bus found, one island
  CheckQlim    \* check_Qlim of the driver; switched shunts and LTC are off

Task == 0 .. (NTasks - 1)

ASSUME DriverAssumption ==
  /\ Rank # {} /\ IsFiniteSet(Rank)
  /\ Devices \subseteq Rank
  /\ NTasks \in Nat
  /\ WaveSize \in Nat \ {0}
  /\ Batchable \subseteq Solvable
  /\ Solvable \subseteq Task
  /\ CheckQlim \in BOOLEAN

VARIABLES
  useBatched,  \* decided by each rank for itself
  nextId,      \* the counter of the task manager
  pc,
  myTasks,     \* the events of the current wave
  noMore,      \* noMoreTasks
  built,       \* does batchAsm point to an assembler?
  healthy,     \* batchRankHealthy
  caches,      \* "base" or "case": whose Ybus and Sbus are cached
  index,       \* the keys of batchIndexByTask
  converged,   \* the events whose entry of batchConverged is 1
  summaries,   \* the keys of batchConvByTask
  retained,    \* the rest of retainedTasks
  fallback,    \* the rest of fallbackTasks
  convergence, \* p_convergence of PFAppModule: whose and which solve's it is
  rows,        \* the convergence rows of each event
  clean        \* the events that converged in a wave and passed its screen
               \* (history)

waveVars == <<myTasks, noMore, index, converged, summaries, retained, fallback>>
caseVars == <<healthy, caches, index, summaries, convergence, rows>>
vars == <<useBatched, nextId, pc, waveVars, built, healthy, caches, convergence,
          rows, clean>>

(* OK and SLACK_OVERLOAD; DIVERGED; ISLANDED and NO_SLACK. *)
Status == {"SOLVED", "DIVERGED", "SKIPPED"}
NoSummary == [task |-> -1, by |-> "none"]

Init ==
  /\ \E enabled \in BOOLEAN : useBatched = [r \in Rank |-> enabled /\ r \in Devices]
  /\ nextId = 0
  /\ pc = [r \in Rank |-> IF useBatched[r] THEN "build" ELSE "claim"]
  /\ myTasks = [r \in Rank |-> {}]
  /\ noMore = [r \in Rank |-> FALSE]
  /\ built = [r \in Rank |-> FALSE]
  /\ healthy = [r \in Rank |-> TRUE]
  /\ caches = [r \in Rank |-> "case"]
  /\ index = [r \in Rank |-> {}]
  /\ converged = [r \in Rank |-> {}]
  /\ summaries = [r \in Rank |-> {}]
  /\ retained = [r \in Rank |-> {}]
  /\ fallback = [r \in Rank |-> {}]
  /\ convergence = [r \in Rank |-> NoSummary]
  /\ rows = [t \in Task |-> <<>>]
  /\ clean = {}

Goto(r, label) == pc' = [pc EXCEPT ![r] = label]

-----------------------------------------------------------------------------
(* runOneCase. *)

(* recordConv(t, status): the batch's own summary if it is in known, the   *)
(* keys of batchConvByTask at that point, or else what p_convergence       *)
(* holds.  by is "batch" for an overlaid state and "solve" for a solved    *)
(* one.                                                                    *)
RecordConv(r, t, by, status, known) ==
  LET cs == IF t \in known THEN [task |-> t, by |-> "batch"] ELSE convergence'[r]
  IN  rows' = [rows EXCEPT ![t] = Append(@, [by |-> by, status |-> status, cs |-> cs])]

(* Plausible bugs, for the mutants. *)

(* What failed keeps its entries in batchConvByTask. *)
GiveUpBatchKeepsSummaries(r) ==
  /\ healthy' = [healthy EXCEPT ![r] = FALSE]
  /\ index' = [index EXCEPT ![r] = {}]
  /\ UNCHANGED summaries

(* The results that did not converge, or that the screen refused, stay. *)
KeptAll(eligible, conv, quiet) == eligible

(* The wave is run in the order of the claims, saved or not. *)
SplitNot(r) ==
  /\ pc[r] = "split"
  /\ retained' = [retained EXCEPT ![r] = myTasks[r]]
  /\ fallback' = [fallback EXCEPT ![r] = {}]
  /\ Goto(r, "retained")
  /\ UNCHANGED <<useBatched, nextId, myTasks, noMore, converged, built, clean,
                 caseVars>>

(* A base state that could be restored makes the rank healthy again. *)
RestoreBaseHeals(r) ==
  /\ pc[r] = "retained" /\ retained[r] = {}
  /\ IF built[r]
     THEN /\ caches' = [caches EXCEPT ![r] = "base"]
          /\ healthy' = [healthy EXCEPT ![r] = TRUE]
     ELSE UNCHANGED <<caches, healthy>>
  /\ Goto(r, "fallback")
  /\ UNCHANGED <<useBatched, nextId, waveVars, built, convergence, rows, clean>>

(* noMoreTasks is not looked at after the wave. *)
AfterWaveClaim(r) == "claim"

(* What remains of the batch once an overlay or its cleanup has thrown:    *)
(* nothing, on this rank, for the rest of the run.                         *)
GiveUpBatch(r) ==
  /\ healthy' = [healthy EXCEPT ![r] = FALSE]
  /\ index' = [index EXCEPT ![r] = {}]
  /\ summaries' = [summaries EXCEPT ![r] = {}]

KeepBatch == UNCHANGED <<healthy, index, summaries>>

(* applyCaseForOutput worked.  The row is recorded, then                   *)
(* clearCaseForOutput puts the caches back; or it throws, and so may the   *)
(* restoreBaseState that answers it.                                       *)
Overlay(r, t) ==
  /\ convergence' = IF t \in summaries[r]
                    THEN [convergence EXCEPT ![r] = [task |-> t, by |-> "batch"]]
                    ELSE convergence
  /\ RecordConv(r, t, "batch", IF t \in converged[r] THEN "SOLVED" ELSE "DIVERGED",
                summaries[r])
  /\ \/ KeepBatch /\ UNCHANGED caches
     \/ /\ GiveUpBatch(r)
        /\ \E c \in {"base", "case"} : caches' = [caches EXCEPT ![r] = c]

(* The ordinary path.  Without a solve the row has whatever p_convergence  *)
(* held, and so has one whose solve throws before it resets p_convergence  *)
(* (the caches are being rebuilt by then).  The status follows the first   *)
(* solve; what the second one, after a Q-limit conversion, returns is not  *)
(* looked at.                                                              *)
SolveCase(r, t) ==
  IF t \notin Solvable
  THEN /\ UNCHANGED <<caches, convergence>>
       /\ RecordConv(r, t, "none", "SKIPPED", summaries'[r])
  ELSE /\ caches' = [caches EXCEPT ![r] = "case"]
       /\ \/ /\ convergence' = [convergence EXCEPT ![r] = [task |-> t, by |-> "solve"]]
             /\ \E status \in {"SOLVED", "DIVERGED"} :
                  RecordConv(r, t, "solve", status, summaries'[r])
          \/ UNCHANGED convergence /\ RecordConv(r, t, "solve", "DIVERGED", summaries'[r])

(* A plausible bug: the event whose overlay failed is not solved. *)
RunOneCaseLosesIt(r, t) ==
  \/ t \in index[r] /\ Overlay(r, t)
  \/ t \in index[r] /\ GiveUpBatch(r) /\ UNCHANGED <<caches, convergence, rows>>
  \/ t \notin index[r] /\ KeepBatch /\ SolveCase(r, t)

(* runOneCase(t): overlay a saved state; or try to, fail, and solve the    *)
(* same event; or solve it because there is no saved state.                *)
RunOneCase(r, t) ==
  \/ t \in index[r] /\ Overlay(r, t)
  \/ t \in index[r] /\ GiveUpBatch(r) /\ SolveCase(r, t)
  \/ t \notin index[r] /\ KeepBatch /\ SolveCase(r, t)

-----------------------------------------------------------------------------
(* The constructor of the assembler, once per rank. *)

Build(r) ==
  /\ pc[r] = "build"
  /\ \E ok \in BOOLEAN :
       /\ built' = [built EXCEPT ![r] = ok]
       /\ healthy' = [healthy EXCEPT ![r] = ok]
       /\ caches' = IF ok THEN [caches EXCEPT ![r] = "base"] ELSE caches
  /\ Goto(r, "claim")
  /\ UNCHANGED <<useBatched, nextId, waveVars, convergence, rows, clean>>

(* taskmgr.nextTask: the ranks that get an id go on, a rank that does not  *)
(* waits for all others.                                                   *)
NextTask(r) == nextId' = nextId + 1

Full(tasks) == Cardinality(tasks) >= WaveSize

(* The claim of a wave: one more id, until the wave is full.               *)
ClaimForWave(r) ==
  /\ pc[r] = "claim" /\ useBatched[r]
  /\ NextTask(r)
  /\ IF nextId < NTasks
     THEN /\ myTasks' = [myTasks EXCEPT ![r] = @ \cup {nextId}]
          /\ IF Full(myTasks'[r]) THEN Goto(r, "begin") ELSE UNCHANGED pc
     ELSE Goto(r, "barrier") /\ UNCHANGED myTasks
  /\ UNCHANGED <<useBatched, noMore, built, converged, retained, fallback, clean,
                 caseVars>>

(* The loop of a rank without waves. *)
ClaimAndRun(r) ==
  /\ pc[r] = "claim" /\ ~useBatched[r]
  /\ NextTask(r)
  /\ IF nextId < NTasks
     THEN RunOneCase(r, nextId) /\ UNCHANGED pc
     ELSE Goto(r, "barrier") /\ UNCHANGED caseVars
  /\ UNCHANGED <<useBatched, myTasks, noMore, built, converged, retained,
                 fallback, clean>>

(* All ranks have asked in vain: nextTask returns false on all of them.    *)
Barrier ==
  /\ \A r \in Rank : pc[r] = "barrier"
  /\ noMore' = [r \in Rank |-> useBatched[r]]
  /\ pc' = [r \in Rank |-> CASE ~useBatched[r] -> "done"
                             [] useBatched[r] /\ myTasks[r] = {} -> "reduce"
                             [] OTHER -> "begin"]
  /\ UNCHANGED <<useBatched, nextId, myTasks, index, converged, summaries,
                 retained, fallback, built, healthy, caches, convergence, rows,
                 clean>>

-----------------------------------------------------------------------------
(* One wave. *)

ClearMaps(r) ==
  /\ index' = [index EXCEPT ![r] = {}]
  /\ summaries' = [summaries EXCEPT ![r] = {}]
  /\ converged' = [converged EXCEPT ![r] = {}]

(* An unhealthy rank leaves the maps empty. *)
SkipWave(r) ==
  /\ pc[r] = "begin" /\ ~healthy[r]
  /\ ClearMaps(r)
  /\ Goto(r, "split")
  /\ UNCHANGED <<useBatched, nextId, myTasks, noMore, retained, fallback, built,
                 healthy, caches, convergence, rows, clean>>

(* The entries of the maps that outlive the wave: those of the events that *)
(* converged and, when the screen runs, that no controller would act on.   *)
Kept(eligible, conv, quiet) ==
  IF CheckQlim THEN conv \cap quiet ELSE conv

(* beginWave repairs the caches, prepare picks the eligible events,        *)
(* solveWave solves them, and the screen follows.                          *)
SolveWave(r) ==
  LET eligible == myTasks[r] \cap Batchable
  IN  /\ pc[r] = "begin" /\ healthy[r]
      /\ caches' = [caches EXCEPT ![r] = "base"]
      /\ \E conv, quiet \in SUBSET eligible :
           /\ index' = [index EXCEPT ![r] = Kept(eligible, conv, quiet)]
           /\ summaries' = [summaries EXCEPT ![r] = Kept(eligible, conv, quiet)]
           /\ converged' = [converged EXCEPT ![r] = conv]
           /\ clean' = clean \cup {t \in conv : CheckQlim => t \in quiet}
      /\ Goto(r, "split")
      /\ UNCHANGED <<useBatched, nextId, myTasks, noMore, retained, fallback,
                     built, healthy, convergence, rows>>

(* Some step of the wave threw, before or after the maps had entries.      *)
WaveFails(r) ==
  /\ pc[r] = "begin" /\ healthy[r]
  /\ healthy' = [healthy EXCEPT ![r] = FALSE]
  /\ ClearMaps(r)
  /\ \E c \in {"base", "case"} : caches' = [caches EXCEPT ![r] = c]
  /\ Goto(r, "split")
  /\ UNCHANGED <<useBatched, nextId, myTasks, noMore, retained, fallback, built,
                 convergence, rows, clean>>

(* retainedTasks and fallbackTasks. *)
Split(r) ==
  /\ pc[r] = "split"
  /\ retained' = [retained EXCEPT ![r] = myTasks[r] \cap index[r]]
  /\ fallback' = [fallback EXCEPT ![r] = myTasks[r] \ index[r]]
  /\ Goto(r, "retained")
  /\ UNCHANGED <<useBatched, nextId, myTasks, noMore, converged, built, clean,
                 caseVars>>

(* The event that was claimed first. *)
Least(t, tasks) == t \in tasks /\ \A u \in tasks : t <= u

RunRetained(r) ==
  /\ pc[r] = "retained"
  /\ \E t \in retained[r] :
       /\ Least(t, retained[r])
       /\ RunOneCase(r, t)
       /\ retained' = [retained EXCEPT ![r] = @ \ {t}]
  /\ UNCHANGED <<useBatched, nextId, pc, myTasks, noMore, converged, fallback,
                 built, clean>>

(* restoreBaseState before the ordinary solves, if there is an assembler;  *)
(* when it throws the rank goes on without the batch.                      *)
RestoreBase(r) ==
  /\ pc[r] = "retained" /\ retained[r] = {}
  /\ \/ ~built[r] /\ UNCHANGED <<caches, healthy>>
     \/ built[r] /\ caches' = [caches EXCEPT ![r] = "base"] /\ UNCHANGED healthy
     \/ /\ built[r] /\ healthy' = [healthy EXCEPT ![r] = FALSE]
        /\ \E c \in {"base", "case"} : caches' = [caches EXCEPT ![r] = c]
  /\ Goto(r, "fallback")
  /\ UNCHANGED <<useBatched, nextId, waveVars, built, convergence, rows, clean>>

RunFallback(r) ==
  /\ pc[r] = "fallback"
  /\ \E t \in fallback[r] :
       /\ Least(t, fallback[r])
       /\ RunOneCase(r, t)
       /\ fallback' = [fallback EXCEPT ![r] = @ \ {t}]
  /\ UNCHANGED <<useBatched, nextId, pc, myTasks, noMore, converged, retained,
                 built, clean>>

(* After the wave: a rank that knows that no task is left must not ask     *)
(* again, the others would not answer.  The maps keep their entries until  *)
(* the next wave.                                                          *)
AfterWave(r) == IF noMore[r] THEN "reduce" ELSE "claim"

EndWave(r) ==
  /\ pc[r] = "fallback" /\ fallback[r] = {}
  /\ Goto(r, AfterWave(r))
  /\ myTasks' = [myTasks EXCEPT ![r] = {}]
  /\ noMore' = [noMore EXCEPT ![r] = FALSE]
  /\ UNCHANGED <<useBatched, nextId, converged, retained, fallback, built, clean,
                 caseVars>>

(* MPI_Reduce of the counts on the world communicator, which any rank may  *)
(* leave only when all have come to it.                                    *)
Reduce ==
  /\ \A r \in Rank : pc[r] = "reduce"
  /\ pc' = [r \in Rank |-> "done"]
  /\ UNCHANGED <<useBatched, nextId, waveVars, built, healthy, caches,
                 convergence, rows, clean>>

Finished == (\A r \in Rank : pc[r] = "done") /\ UNCHANGED vars

Step(r) ==
  \/ Build(r) \/ ClaimForWave(r) \/ ClaimAndRun(r)
  \/ SkipWave(r) \/ SolveWave(r) \/ WaveFails(r) \/ Split(r)
  \/ RunRetained(r) \/ RestoreBase(r) \/ RunFallback(r) \/ EndWave(r)

Collective == Barrier \/ Reduce

Next == (\E r \in Rank : Step(r)) \/ Collective \/ Finished

Spec == Init /\ [][Next]_vars

(* Ranks are processes of the operating system, the loops they run in end, *)
(* and a collective completes once all have called it.                     *)
FairSpec == Spec /\ (\A r \in Rank : WF_vars(Step(r))) /\ WF_vars(Collective)

-----------------------------------------------------------------------------
(* Every processed event has one row, whatever failed on the way: none is  *)
(* ever reported twice, and when all ranks are done none is missing.       *)
OneRowPerEvent ==
  \A t \in Task :
    /\ Len(rows[t]) <= 1
    /\ (\A r \in Rank : pc[r] = "done") => Len(rows[t]) = 1

(* A state of the batch is reported only if it converged and, when the     *)
(* screen is on, only if no controller would have acted on it: the others  *)
(* are solved by the ordinary path.                                        *)
OnlyCleanIsEmitted ==
  \A t \in Task : \A i \in DOMAIN rows[t] : 
    rows[t][i].by = "batch" => t \in clean /\ rows[t][i].status = "SOLVED"

(* The convergence numbers of a row that reports a solved state are those  *)
(* of the event itself and of the solver its state came from, though a     *)
(* batched case never calls the solve() that resets them.  (Those of a row *)
(* that was skipped, or whose solve threw, may be of an earlier event.)    *)
SummaryIsOwn ==
  \A t \in Task : \A i \in DOMAIN rows[t] :
    rows[t][i].status = "SOLVED" => rows[t][i].cs = [task |-> t, by |-> rows[t][i].by]

(* A saved state is overlaid while the rank's Ybus and Sbus are those of   *)
(* the base case, and only by an assembler that exists and has not failed. *)
OverlayOnBase ==
  \A r \in Rank :
    pc[r] = "retained" /\ retained[r] \cap index[r] # {}
      => caches[r] = "base" /\ built[r] /\ healthy[r]

(* A rank that gave the batch up stays without it. *)
GivenUpForGood ==
  \A r \in Rank : healthy[r] = FALSE => healthy'[r] = FALSE /\ index'[r] \subseteq index[r]
NeverRetried == [][GivenUpForGood]_vars

(* All ranks come to the end of the loop and of the reduction. *)
Terminates == <>(\A r \in Rank : pc[r] = "done")

=============================================================================
