# GriDSSPack in TLA+

GriDSSPack is a framework for parallel power-grid programs (C++, MPI, Global
Arrays) whose newest part is a contingency analysis that solves batches of
outages on a GPU. This directory holds models of its control logic, the TLC runs
that check them on small instances, and TLAPS proofs for all instances.

Paths below are relative to the repository; `CA` stands for
`src/applications/contingency_analysis`, `PF` for `src/applications/modules/powerflow`,
`DS` for `src/applications/modules/dynamic_simulation_full_y`.

## 1. The system

| Component | Code | State it keeps | Operations | What is hard about it |
|---|---|---|---|---|
| Task manager | `src/parallel/task_manager.hpp` | shared counter, number of tasks, calls of this process | `set`, `nextTask` (alone, or as a sub-communicator), `cancel` | all processes race on the counter; barriers over the whole group; counter width |
| Row writer | `CA/ca_async_writer.hpp` | queue, stop flag, file | `open`, `write`, `close`, background loop | condition variable, shutdown with blocks in flight |
| Contingency application | `PF/pf_app_module.cpp`, `PF/pf_factory_module.cpp`, `components/pf_matrix` | statuses, isolation, reference bus, PV/PQ flags with two saved copies, undo lists | `setContingency`, `solve`, `checkQlimViolations`, `clearQlimViolations`, `unSetContingency` | six kinds of state, each with its own saved value; the order of the undo steps |
| Driver | `CA/ca_driver.cpp` | claimed wave, maps of batched results, health of the rank | base solve, wave loop, `runOneCase`, `recordConv`, finalisation | any step of the batched path may throw; caches valid in one order only; collectives at the end |
| Batched assembler | `PF/pf_batch_ca_assembler.hpp` | base pattern, base voltages, wave-local cases | `beginWave`, `prepare`, `assemble`, `update`, `applyCaseForOutput`, `clearCaseForOutput`, `restoreBaseState` | patches caches in place |
| Batched Newton, bridge screen | `PF/pf_batch_ca.hpp`, `PF/pf_screen.hpp` | per-case iteration, factor age, stall counters | `solveWave`, bridge pass | per-case control inside one batch; a linear-time screen that must agree with the full search |
| GPU backend | `src/math/cudss`, `src/math/linear_solver_backend.cpp` | default backend, device probe | analyse, factor, solve | availability differs between ranks |
| Flat output | `ca_driver.cpp` | part files, shared file, memory buffer | append, concatenate, MPI-IO at offsets | several writers; executions that are killed and started again with the same file names |
| Parallel containers | `src/parallel`, `src/parser/hash_distr.hpp` | global arrays, send lists | upload, shuffle, distribute | collective exchanges |
| Network | `src/network/base_network.hpp` | buses, branches, active flags, ghosts | partition, clean, ghost update | consistency of ghost copies |
| Statistics | `src/analysis/stat_block.cpp` | columns of values and masks | add column, reductions | columns from different processes |
| Dynamic simulation, event-driven path | `DS/dsf_app_module2.cpp`, `DS/dsf_events.cpp`, `DS/dsf_components.cpp`, the relays `lvshbl`, `frqtpat` and `distr1` of `DS/model_classes` | one Y matrix, a copy of each diagonal element at its bus, statuses, relay counters | `handleEvents`, `runonestep` with the bus and branch relays | events add and subtract, bus relays overwrite: two ways to keep one matrix |
| Older dynamic driver, EMT, estimation | `src/applications/modules/*` | machines, filters | time stages | numerical |
| Factory, mappers, parsers, partitioner, exporters, timers, configuration | `src/...` | | | sequential, numerical or I/O |

How they interact. The driver's world of ranks shares one task manager. A rank
claims event numbers from it, singly or in waves. For each event `runOneCase`
changes the rank's own network by `setContingency`, obtains a state (by
`solve()`, or by overlaying what the batched solver found), records a
convergence row, hands formatted rows to the row writer, and undoes everything
with `unSetContingency` and `clearQlimViolations`. In wave mode the assembler
and the batched Newton work on the same network between the claim and the first
`runOneCase`. At the end of the loop the ranks meet in reductions, and rank 0
merges the part files, or all ranks write their share at its offset. The dynamic
simulation shares the network classes and nothing else with this.

What makes each part correct: an event number goes to one team and none is
lost; rows reach the file once and in order; a case leaves no trace; one row per
event with the event's own numbers; a batched result is used only while the
caches it patches are those of the base case; no case of a wave computes with
what another left behind; the fast screen admits what the full probe admits; the
file has each block once, whatever an earlier execution left; the Y matrix is
that of the network after events and relays; everybody gets to the end.

## 2. Modules

| Module | Models | Uses |
|---|---|---|
| `TaskPool` | what the task manager promises (abstract) | |
| `TaskManager` | `task_manager.hpp` and the client loop of its test | implements `TaskPool` |
| `TaskManagerProofs` | proofs | extends `TaskManager` |
| `RowWriter` | what the row writer promises (abstract) | |
| `AsyncRowWriter` | `ca_async_writer.hpp` | implements `RowWriter` |
| `Contingency` | one process's network through the cases | |
| `ContingencyProofs` | proofs | extends `Contingency` |
| `PFSolve` | one call of `PFAppModule::solve` | what `Contingency` (a set of moved settings) and `CADriver` (an outcome) abstract |
| `PFSolveProofs` | proofs | extends `PFSolve` |
| `CADriver` | the contingency loop on all ranks | abstracts `TaskManager` to its counter and barrier, and `Contingency` to the state of the caches |
| `CADriverProofs` | proofs of the loop, and of the writer each rank has | extends `CADriver` and `AsyncRowWriter` |
| `BatchWave` | `GridpackBatchAssembler` and `PFBatchNR::solveWave` through the waves of one rank | what `CADriver` abstracts to `Split` and `Overlay` |
| `BatchWaveProofs` | proofs | extends `BatchWave` |
| `BridgeScreen` | the bridge search and the table the assembler makes of it | compared with the probe of `Contingency`'s code |
| `BridgeScreenProofs` | proofs | extends `BridgeScreen` |
| `FlatOutput` | the csv_flat rows of all ranks, over several executions | abstracts `AsyncRowWriter` to a queue of cells |
| `FlatOutputProofs` | proofs | extends `FlatOutput` |
| `DynamicEvents` | events and relays of the dynamic simulation, and the Y matrix | |
| `DynamicEventsProofs` | proofs | extends `DynamicEvents` |
| `MC*` | instances for TLC | |

### TaskManager

A process is the loop `set(n); while (nextTask(&id)) ...`, repeated `MaxRounds`
times. `EnterSet`, `ZeroComplete` and `Assign` are `set` (the collective
`GA_Zero` in the middle); `NextTask` is the draw of the single form;
`NextTaskComm` and `Igop` are the draw of rank 0 and the sum that gives it to
the other members; `Accept` and `Refuse` are the comparison that ends both
forms, `Refuse` with the barrier `SyncComplete` behind it; `Cancel` is
`cancel()`. The counter is a C int: `Wrap`. `received`, `limit`, `cancels`,
`overflowed` are history the properties need. Global Arrays is external.

`ImplementsPool` maps an id to "handed out" from the moment it is drawn, so that
the abstract step is the atomic one.

### AsyncRowWriter

A step is what happens under one hold of the mutex, one `notify_one`, or the
writing of one block. `Push`/`Notify` are the two halves of `write`,
`RequestStop`/`NotifyStop`/`Join` those of `close`; `Sleep`, `SpuriousWakeup`,
`Swap`, `DrainOne`, `DrainEnd`, `CheckExit` are the thread. Initial states, steps
and specification are called `WriterInit`, `WriterNext`, `WriterSpec`, so that
`CADriverProofs` can extend the writer and the driver. `notify_one` wakes
the consumer only if it waits. The file is created by the first block.

### Contingency

The state is the service status of lines and generators, `p_isolated`, the
reference flag, `p_isPV` with its copies `p_saveisPV` and `p_save2isPV`, whether
`p_qg` differs from its saved value, which controllers are off their initial
setting, and all undo variables of `PFFactoryModule`. `SetContingency` is the
whole of `setContingency` (statuses, lone buses, slack transfer, islands) in the
order of the code; it serves for a case, for an overlay and for a probe of the
assembler. `Solve` chooses what the controllers did. `UnSetContingency` and
`EndCase` are the undo. `ScreenCase`/`EndScreen` are the controller checks the
driver makes on a batched state. Voltages are left out: each case begins with
`resetVoltages`. `groupSize` is 1, the default.

### PFSolve

`solve()` is three nested loops. `StartPass` is the head of the controller loop,
which builds everything anew from the present settings; `NewtonStep` one turn of
the Newton loop with its stagnation check and its test for a mismatch that has
blown up; `EndNewton` the verdict and the summary; `Controllers` the four
controllers and the bound; `PushBack` the last correction; `Interchange` the
area loop. `changed` is what moved since the equations were set up, `mapped` the
number of PV buses at that moment. The mismatch is "met", "high" or "blown";
whether it is the same as before is a free choice, and so is what a controller
does when it is present (`opt`). Conversions go only from PV to PQ, as in
`chkQlim`. `CtrlLimit` and `AreaLimit` are the bounds as the code computes them.

The solve applies the correction of the previous linear solve and tests the
mismatch before the newest one, so the mismatch that was accepted is that of the
state before the last correction. The model keeps this order: the last
correction is written in `PushBack`, after the controllers.

### CADriver

`pc[r]` follows `execute()` from the construction of the assembler (`Build`) over
the claim (`ClaimForWave`, `ClaimAndRun`, `Barrier`), the wave (`SkipWave`,
`SolveWave`, `WaveFails`), `Split`, the retained results (`RunRetained`),
`RestoreBase`, the fallbacks (`RunFallback`) and `EndWave`, to the reductions
(`Reduce`). `RunOneCase` has the three ways through `runOneCase`: an overlay,
possibly with a failing cleanup; an overlay that fails and is replaced by a
solve; a solve. `index`, `summaries` and `converged` are the three maps of the
wave. Which results converge, what the screen says and what throws are free
choices; `clean` records which results were good. The lists of a rank are
sets, since the properties do not depend on the order within a wave.

A row's status is abstracted to SOLVED (OK and SLACK_OVERLOAD, which are recorded
at the same point), DIVERGED and SKIPPED (ISLANDED and NO_SLACK).

### BatchWave

One network serves all cases of a wave, so the question is always what a number
was computed from. A voltage state is named by the case and the Newton step that
made it; `inj`, `jac` and `factor` carry the pair of that state and of the
circuits that the cached Ybus took to be out. `BeginWave` is `beginWave` with
`prepare`; `AssembleLive`, `FinishLive` and the two steps are the calls
`assembleLive`, `updateLive`, `updateLiveRhs`, `assembleLiveJac`, `finishLive` in
the order of `solveWave`; `Factorize`, `ChordStep`, `Refactor` are its path with
factor reuse, `ExactStep` the one without; `ApplyCaseForOutput` and
`ClearCaseForOutput` are the overlays. A factorization or a solve may fail, a
residual may be within the tolerance, open, infinite or, if the constant
`Residuals` says so, not a number; anything may throw (`WaveFails`), which the
driver answers with `restoreBaseState` and no further wave. `Settings` are the
arguments of the constructor before it corrects them (`Clamp`).

### BridgeScreen

`AddEdge` and `SkipCircuit` make the graph of active buses, one circuit at a
time. `StartCount`, `MergeEdge` and `Merged` are `componentsWithout` with its
union-find, for the base case, which the table asks for, or for any outage, as the
tests call it. After the base case come `NewRoot`, `SkipRoot`, `WalkEdge` and
`Pop`, the depth-first walk with its own stack, and `Tabulate`, the table of
`p_buildConnectivityScreen`; the walk is made on disconnected bases too, since the
tests do that. Path halving is left out: it changes no root. The list of edges at a
vertex is in the order of the edges, so a frame's place in it is the last edge it
has taken.

`Components` defines what both count: two vertices are in one component if no
division of the vertices that none of the edges crosses has them on different
sides. `Probe` is what `setContingency` finds for the same outage: lone buses,
islands among the rest, and a reference bus that stays one; table and probe are
compared circuit by circuit. The comparison leaves out networks of one active bus
(`N > 1`): a bus whose only circuit leads back to itself is lone for the probe when
that circuit is out, while the screen does not look for lone buses.

### FlatOutput

A block is a sequence of cells that name execution, rank and case, so that what
is in a file can be traced to who wrote it. `mode` chooses among the shared file,
the part files and the buffered output. `Create`/`SyncCreated` precede the loop;
`Base`, `ClaimTask`, `SolveWave`, `RunCase`, `LoopDone` are the loop; `EnsureFile`,
`Flush`, `Close` the writer of a rank, which runs beside it; `SetSize`, `WriteHeader`, `SyncHeader`,
`WriteAt`, `CloseFile` the MPI-IO; `ConcatPart`, `SkipPart`, `Merged` the merge of
rank 0. `whole` says whether the file system appends a block in one piece; it varies where
several ranks append to one file, in the shared mode.
`Rerun` kills the job at any point, or follows its end: memory is lost, files
stay, and mode and number of ranks may be other ones. csv_delta goes the way of
the part files.

A rank claims the cases of a wave one by one, while other ranks claim theirs. The
batch then retains any subset of the wave (`retained`; none of it when the batch
fails). The retained cases are run first and the fallbacks after them, each group in
the order of the claims (`Upcoming`, `CA/ca_driver.cpp:2637`), so a rank's blocks
need not come in the order of the case numbers. `wrote` is the sequence of cases a
rank wrote, and that is the order `EveryBlockOnce` asks for in the file. A wave of
one case is also the loop without batches.

### DynamicEvents

The matrix counts how often each admittance (a circuit, a generator, a fault, a
part of a load that a relay sheds) is in each element. `FaultStart`, `FaultEnd`,
`LineSwitch`, `GenSwitch`, `NotDue` are `handleEvents`, one event at a time;
`SolveNetwork` is the network solution; `UpdateBusRelay`, `SkipRelay`, `OverwriteBuses` and
`UpdateBranchRelay`, `IncrementBranches` are the two loops of the factory with
the matrix updates they lead to. `nominal` is the bus's own copy of its diagonal
element. The order of the loops is that of the code, with the stop at the first
relay that operates. Times are in half steps, so that an event can lie between
two steps.

A circuit is in the matrix by two parts: its series admittance 1/(R+jX), and the
rest (`RestOf`), which its charging and its tap ratio make. Building the matrix and
line events put in or take out both (`Admittance`); a line relay takes out the first
only (`IncrementBranches`, `DS/dsf_components.cpp:4066`). Circuits have no shunts at
their ends in the model (section 5).

What a relay finds at an evaluation is a choice among the readings its kind can have
(`Readings`, `Sights`). Each kind has its own timers: LVSHBL one, FRQTPAT one for low
and one for high frequency, DISTR1 one for each of two zones. `BusPick` resets a
counter whose condition does not hold. `LinePick` does not: outside both zones the
counter of zone 1 stays as it is (`DS/model_classes/distr1.cpp:177`). From the
pick-up on the kinds do the same (`Evaluated`). `past` records what each evaluation of
a relay saw, for `RelayIsPatient`; a step in which a relay is passed over is not in
it.

## 3. What is checked

| Run | Bounds | Properties |
|---|---|---|
| `task_manager` | 3 processes, sub-communicators of 2 and 1, 0, 1 or 3 tasks, 2 rounds, 2 cancels | `OnlyOnce`, `AllGiven`, `SameTasks`, `CancelIsFinal`, `ImplementsPool`, `Terminates` |
| `async_row_writer` | 5 blocks, both modes | `ClosedIsComplete`, `NoLostWakeup`, `ImplementsRowWriter`, `Closes` |
| `contingency` | 6 buses, 7 lines, 5 generators, all events of one or two elements, three settings of the Q-limit options | `TypeOK`, `ReturnsToBase`, `OneReference`, `SolvedIfConnected`, `PVHasGenerator` |
| `pf_solve` | 5 Newton iterations, stagnation at 2, 3 PV buses, 1, 3 and 4 as the three bounds of the controller loop, 3 area passes, all options | `TypeOK`, `SummaryAgrees`, `AcceptedIsSolved`, `NoControlOnFailure`, `Terminates` |
| `ca_driver` | 2 ranks, 4 events, waves of 3 | `OneRowPerEvent`, `OnlyCleanIsEmitted`, `SummaryIsOwn`, `OverlayOnBase`, `NeverRetried`, `Terminates` |
| `batch_wave` | 2 waves of up to 2 cases, 3 circuits of which one is out in the base, 6 settings of the constructor, residuals met, open or infinite | `StepIsOwn`, `BaseBetweenCases`, `VerdictIsSolved`, `RefactorBudget` |
| `bridge_screen` | 4 buses; all lists of up to 3 circuits, loops and parallels included, with an isolated bus, a circuit out of service or no generator at the reference; all multisets of up to 5 circuits | `ScreenIsExact`, `ShortcutIsProbe`, `Terminates` |
| `flat_output` | 2 executions, up to 2 ranks each, 2 contingencies, waves of up to 2, blocks of 2 cells, all three modes | `EveryBlockOnce`, `BlocksWhole`, `StaleOnlyFromIdle`, `NoPartLeft`, `Ends` |
| `dynamic_events` | 5 buses in a line, 5 circuits of which 2 are parallel, 2 generators, 2 bus relays and a line relay, 3 steps, lists of 2 or 3 events | `MatrixIsNetwork`, `RelayIsPatient` |

Three more runs end in a counterexample; they are described below.

Why the bounds are enough. Two rounds show a manager that is used again; three
processes with a pair show members of one team, two teams, and a team of one;
three tasks for two teams let one team draw twice; `IntMax` is out of reach of
these bounds, so the properties are checked where they are claimed. Five blocks
let the producer fill the queue before, during and after a drain. The six-bus
network has a line whose outage makes an island, a pair that leaves the
reference bus alone, a double circuit, two buses of equal capacity for the
transfer, a generator without capacity, one out of service, and an isolated bus.
Four events for two ranks with waves of three let a rank have no wave, one short
wave, a full wave and a short one; the last wave can be short on one rank and
empty on the other, which is where a rank could ask the task manager once too
often; one event is ineligible, one cannot be solved. In `pf_solve` each of the
configured bounds and the literal of the code decides for some options; five
iterations leave room for a stagnation without and one with a conversion, and
for one in the very last iteration; three PV buses allow a conversion in each
pass up to the bound. Two cases and two waves are what it takes for one case or
wave to leave something to the next; the six settings make each bound of
`solveWave` (cap, stride, adaptive limit, iterations) the one that decides. Four
buses and five circuits have trees, cycles, double circuits on and beside a
bridge, loops and several components; the order of the circuits, which the walk
depends on, is varied up to three. Two executions are enough for one to find what
another left, wherever that was killed, also with more or fewer ranks; blocks of
two cells can be torn; of a wave of two the second case can be retained and the first
not, so that they are written in the other order, and a rank whose neighbour claims
the other case has a wave of one. On the line of five buses a fault, a circuit of a pair, a
generator and each kind of relay can change the same or neighbouring elements;
`EndStep` 3 lets a relay pick up, operate, and the matrix be used once more. The
pick-up times let either timer of a relay be the one that runs out, and let a line
relay leave both zones between two sightings of zone 1.

`MatrixIsNetwork` is checked, and proved, for inputs that satisfy `InputAssumed`;
TLC evaluates this for the event lists of `dynamic_events` (`MCInputIsAssumed`).
Relays are at buses that no event touches (see `dynamic_events_relay`), events are
on the grid of steps, and relays are on the circuits of one branch: beyond that the
code does not keep it (see the hazards). The property makes one exception by name:
the charging and the tap part of a circuit that a line relay has opened count as in
service, because the code leaves them in. `VerdictIsSolved` is checked
where the entries of a residual are numbers. The type invariants of modules whose
run does not list one are part of the inductive invariants that are proved (that of
`DynamicEvents` is in two parts, of the relays and of the matrix).

Fairness. In `TaskManager`, a process that can run does and a collective that
all have entered completes (MPI's progress rule); nothing obliges anybody to
cancel. In `AsyncRowWriter`, both threads get to run; spurious wake-ups are not
relied on. In `CADriver`, as in `TaskManager`; no outcome of a choice is
favoured. In `PFSolve`, the one thread goes on (every linear solve returns), and so does
the sequential walk of `BridgeScreen`. In `FlatOutput`, ranks and their writer
threads go on and collectives complete; nobody is obliged to start another
execution, and an execution that is not killed ends. One condition on all of them
together (`Progress`) is enough there, since no rank has a step that it can repeat. Of `Contingency`,
`BatchWave` and `DynamicEvents` only safety is stated, so they need none.
`DynamicEvents` and `PFSolve` stop when the computation is over, so their runs do
not look for deadlock.

Each property of a passing run has a mutant, a definition changed the way a
plausible bug would change it (the operators under "Plausible bugs"), which the
property catches.

### Disagreements with the documentation

Three runs each end in a counterexample, from what the code does, to something the
repository says:

* `contingency_qlim`: `ReturnsToBase` fails when `Powerflow/qlim` is on and
  `Contingency_analysis/qlim` is off: `solve()` converts buses and the driver
  does not call `clearQlimViolations`. The comments at `CA/ca_driver.cpp:2354` and
  `PF/pf_app_module.cpp:1522` promise the base state.
* `pf_solve_push`: `PushOnOwnMap` fails: a conversion in the last allowed pass
  changes the dimensions of the bus vector, and the pending correction is still
  written through the old map, which `PF/pf_app_module.cpp:862` says must not be.
* `dynamic_events_relay`: `LineStaysOut` fails: a line event takes the circuit out
  of the matrix and not out of the bus's own copy of the diagonal; when a bus
  relay at that bus operates, the copy is written back
  (`DS/dsf_components.cpp:365`, `DS/dsf_app_module2.cpp:468`).

Met while modelling, and not the subject of a run:

* With area interchange, the scheduled generation that `solve()` moves is not put
  back after a case.
* A reference bus that loses all its lines but has a generator stays the
  reference although it is isolated (`PF/pf_factory_module.cpp:418`).
* The bound of the controller loop is never below 10, so `maxQlimIterations`
  (default 3) does not do what the manual says.
* With a CUDA device on some ranks only, the two reductions after the loop are
  called by those ranks only; `GPU_CA_IMPLEMENTATION.md:15` describes a graceful
  fallback.
* A residual with entries that are no numbers can count as converged: the maximum
  of `PF/pf_batch_ca_assembler.hpp:953` never takes such an entry.
* "Only ONE factorization is done per wave"
  (`src/math/cudss/cudss_batched_solver.hpp:176`) is not so: the code factorizes
  for each case and each refactorization, as `RefactorBudget` bounds it.
* `DSFullFactory::updateBranchRelay` returns its flag for the local branches only,
  without the `checkTrueSomewhere` of the bus relays (`DS/dsf_factory.cpp:353`);
  the model is of one process.
* Only the first relay that operates in a step is acted on; the relays of the
  later buses are not evaluated (`DS/dsf_factory.cpp:334`) and see nothing of that
  step, neither their condition nor its end. They may trip late, or after a time that
  contains a step in which the condition did not hold: `RelayIsPatient` counts
  evaluations and says nothing of such a step. A later *branch*
  that is passed over also keeps `p_newtripbranchcktidx` and the flag of an earlier
  step (`DS/dsf_factory.cpp:348`), so a circuit that tripped there is subtracted
  from the matrix a second time when another branch trips. TLC finds this as soon
  as two branches have relays; no text of the repository speaks of it.
* A DISTR1 relay keeps its count of zone 1 while the impedance is outside both zones
  (`DS/model_classes/distr1.cpp:189`), so sightings of zone 1 far apart add up to its
  pick-up time. `RelayIsPatient` says what holds: only seeing zone 2 without zone 1
  ends a count of zone 1 (`Ended`).
* The trip of a line relay leaves the charging and the tap part of the circuit in the
  matrix; a comment there says "tbd" (`DS/dsf_components.cpp:4066`).
* Shunts at the ends of a circuit enter the matrix when it is built
  (`components/y_matrix/ymatrix_components.cpp:618`), and no line event or relay takes
  them out with the circuit (`getLineElements`, line 659).

## 4. What is proved

For every value of the constants that satisfies the named assumptions:

* `TaskManagerProofs`: `TypeOK`, `OnlyOnce`, `AllGiven`, `SameTasks`,
  `CancelIsFinal`, and that the manager implements `TaskPool` as long as the
  counter does not overflow. The inductive invariant adds to the properties that
  every id below the counter is held by somebody or was given, that ids held are
  below the counter, and what each process knows of the round from where it is.
  The barrier argument (nobody is "out" while an id is drawn but not given) is
  the heart of `AllGiven` and of the refill step of the refinement.
* `ContingencyProofs`: `TypeOK`, `ReturnsToBase`, `OneReference`, `PVHasGenerator`
  and `SolvedIfConnected`; the first four for every network and every list of events, assuming
  `QlimAgrees` (Q limits of the power flow imply those of the analysis) and
  `NoControllers`. `ReturnsToBase` is not inductive: while an event is in force
  one must know how the network differs from the base in terms of the undo
  variables (`InCaseInv`), and that the two saved copies of the PV flag never
  leave their initial value (`PVInv`). The run `contingency_qlim` shows
  that the first assumption is needed; on the second see area interchange above.
  `SolvedIfConnected` is proved without either. It says that no division of the
  active buses into two parts is left uncrossed; the search is defined
  as what a breadth-first search comes to (a bus is reached unless a set that has
  the start and not the bus is closed under neighbours), so that one island gives a
  crossing for every division (`OneIslandIsConnected`). `ConnInv` carries it from
  the search to the solve.
* `PFSolveProofs`: `TypeOK`, `SummaryAgrees`, `AcceptedIsSolved` and
  `NoControlOnFailure`, for any bounds and any number of PV buses. The invariant
  says, per place, which settings may have moved since the equations were set up
  (nothing inside the Newton loop, unless stagnation converted a bus) and that a
  pass which is not repeated below the bound moved nothing.

* `CADriverProofs`: `OneRowPerEvent`, `OnlyCleanIsEmitted`, `SummaryIsOwn`,
  `OverlayOnBase` and `NeverRetried`, for any ranks, devices, events and wave
  size. `Todo(r)` is the set of events that rank r has claimed and not reported,
  which depends on where it is; an event below the counter has one row or is in
  exactly one `Todo` (`OwnerInv`), and a rank that is past the barrier knows that
  the counter has run out (`PlaceInv`). For the batched rows, both maps stay
  equal, within the clean results, and non-empty only while the caches are those
  of the base and the assembler is healthy (`MapInv`). `CaseEffect` says once what
  the three ways through `runOneCase` have in common.
  The second part of the module is about the writer a rank hands its blocks to, for
  any number of blocks: `TypeOK`, `InOrder`, `NoLostWakeup`, `ClosedIsComplete`, and
  that `AsyncRowWriter` implements `RowWriter`. `InOrder` needs that in synchronous
  mode queue and local deque are empty; `ClosedIsComplete` that a finished thread
  leaves both empty.
* `BatchWaveProofs`: `StepIsOwn`, `BaseBetweenCases`, `RefactorBudget`, and
  `VerdictIsSolved` under the assumption that "nan" is no residual, for any
  circuits, waves and settings. The invariant says which circuits are out where,
  what each buffer was computed from, and how the three counters and the number
  of factorizations bound one another.
* `BridgeScreenProofs`: `ScreenIsExact` and `ShortcutIsProbe`, for any number of
  buses and circuits. Three ingredients:
  - Components. A set with one vertex of each component counts them (`OneOfEach`);
    taking out an edge leaves their number (`NoCutKeeps`) or adds one (`CutSplits`),
    according to whether its ends stay joined. No induction over paths is
    needed, since joined is defined by divisions.
  - Union-find. For the forest there are a map to the roots and a rank that falls
    towards them (`IsForest`); with these, `Find` is the root (`FindIsRoot`, by the
    least counterexample in rank), and `Merge` keeps both (`MergeIsForest`).
  - The walk. The stack is a path of the tree (`PathInv`, `ParentInv`), what is
    finished has no edge to what is not known, nor past an open frame (`DoneInv`),
    what was found since a frame is joined to it by tree edges of that time
    (`TreeInv`), no edge joins two trees (`ApartInv`). The low point of an open
    vertex is at most what any edge seen from its segment reaches below it (`LowInv`)
    and is reached by an edge other than the one it came by (`WitnessInv`). When a
    vertex is finished, a low point above the parent makes its edge a cut
    (`HighIsCut`: `LowInv` leaves no other edge out of what was found since), any
    other does not (`LowIsNoCut`: the witness goes around it). So the bridges among
    finished vertices are the cuts (`BridgeInv`). An edge that is no tree edge is
    no cut, since the tree joins its ends.

  The probe then finds one island and no lone bus when the circuit is no cut
  (`NoCutProbe`), and two islands or a lone bus when it is one (`CutProbe`).
* `FlatOutputProofs`: `NoPartLeft`, `EveryBlockOnce`, `BlocksWhole` and
  `StaleOnlyFromIdle`, for any number of ranks, cases, cells to a block and
  executions, wherever they were killed. `IInv` types the cells by the executions
  they can be of: a part file that this execution does not write holds only cells
  of earlier ones (`PartsInv`), a stream is open only if its part file exists and its
  rank may still write (`OpenInv`), nobody writes while rank 0 merges
  (`MergeInv`), and the cells that wait are a multiple of a block (`WholeInv`), so
  that a whole append never takes more than there is. `CellInv` then follows the
  rows of each rank, with waves of any size: the rows of the cases it has run are, in
  the order in which it ran them, what its file (or its share of the shared file, or
  its buffer) has, followed by what waits (`RowInv`, `StreamInv`, `SharedInv`,
  `MemoryInv`); the cases of its wave that it has not run yet have no block, and no
  case that is still to be claimed has one (`ClaimInv`), so that none is written
  twice; blocks stay aligned
  (`AlignInv`); a rank without a block has written nothing (`IdleInv`); what
  rank 0 has merged is the files of the ranks so far (`MergedInv`); and the ranges
  of the buffered output lie at the sums of the sizes before them, so they cannot
  overlap (`WrittenInv`, `FileInv`).
* `DynamicEventsProofs`: `RelayIsPatient`, for any network, relays, events and
  timer settings, whichever relays are passed over (`RelayAssumption`: a breaker
  takes at least one evaluation). It speaks of evaluations, in the terms of each of the
  three kinds: a timer counts those that saw its condition and that none since has
  found ended (`CountedBy`, `Ended`). The invariant says what the pick-up and breaker
  counters tell of the relay's history; `PickLaw` and `CountLaw` are the induction
  step for one relay. `MatrixIsNetwork`, save the charging and tap part of circuits
  that line relays have opened, for any network, relays and events with `InputAssumed`:
  no two relays act on the same part; line relays are on one branch and away from
  the buses with bus relays (two branches: see section 3); no event is at a bus or
  circuit of a relay (`dynamic_events_relay` shows why); event times are on the grid,
  a fault ends after it starts (a hazard otherwise) and no two faults are on at
  once: the end of one fault clears the flag of every bus. `NetInv`
  follows each admittance through the step: devices are as the events so far say
  (`SaysInv`), a circuit's series admittance is out when an event or a relay has opened
  it (`LineIn`) and the rest only when an event has (`RestIn`), the elements of a bus
  without relays are those of its devices
  (`PlainInv`), the bus's own copy is the built one without what its relays took
  (`NominalInv`), and the matrix has the copy unless the step in which a relay
  acted is not over (`RelayBusInv`, `PendingInv`, `LineInv`).

Only model-checked: liveness (`Terminates`, `Closes`, `Ends`), since the prover
does not reason about fairness. Every safety property and every refinement that a
passing run checks is also proved.

## 5. What is not modelled

The Newton iteration and all numerics, formats, console output, Global Arrays,
MPI, CUDA and PETSc (their documented effect where the code relies on it); I/O
errors; exceptions outside the `try` blocks of the driver, which end the program;
processes that die, except in `FlatOutput`. `PROJECT.json` lists every component with its status, and
under `hazards` the places where a property is still missing and why.

Details left out of the models that are written: generators whose Q is already
set to a limit when the file is read (`presaturation`), the voltage dead band of
the conversion back to PV, the set-up of remote regulation, an event that names an
element twice, `groupSize` above 1. A throw inside the probe of `prepare`. In
`FlatOutput` the StatBlock export, and in `DynamicEvents` the actions of HADREC
and `executeOneSimuStep`, the second implementation of the same step, and shunts at
the ends of circuits (section 3 says what the code does with them). The
parsers, mappers, exporters, the state estimation and the components of the
machine models are most of the repository's lines; they are sequential text
processing and numerics without state that outlives a call in a way TLC could
usefully explore.

## 6. Plan

Done, in this order: task manager, row writer, contingency undo, power flow loop
and driver loop with proofs of all five; the waves of the batched engine with
proofs; the bridge screen with proofs; the flat output over killed executions with proofs;
events and relays of the dynamic simulation with proofs.

What remains:

1. `TaskGroup`: `groupSize` above 1, where one decision of `checkAndTransferSlack`
   is taken by each process of the group for itself.
2. Parallel containers and ghosts (`GlobalStore`, shufflers, `base_network`),
   statistics, timers.
3. `executeOneSimuStep` with the actions of HADREC, as a second way to drive
   `DynamicEvents`.

## 7. Running

    tlc -config MCTaskManager.cfg MCTaskManager
    tlc -config MCDynamicEventsRelay.cfg MCDynamicEvents
    tlapm ContingencyProofs.tla

Each `.cfg` belongs to the `MC` module it is named after; `MCContingency`
(`MCContingencyQlim.cfg`), `MCPFSolve` (`MCPFSolvePush.cfg`) and `MCDynamicEvents`
(`MCDynamicEventsRelay.cfg`) have two.
