---------------------------- MODULE TaskManager ----------------------------
(***************************************************************************)
(* gridpack::parallel::TaskManager (src/src/parallel/task_manager.hpp):    *)
(* processes of a Global Arrays group draw task ids from one shared        *)
(* counter with a fetch-and-add, alone or as members of a sub-communicator *)
(* whose rank 0 draws for all.  The process that finds the counter at or   *)
(* past the number of tasks waits in a barrier of the WHOLE group before   *)
(* it is told that no task is left.                                        *)
(*                                                                         *)
(* A process is the client loop of the user manual and of the test:        *)
(*   set(n); while (nextTask(&id)) work; set(n2); while (nextTask(...))... *)
(* What GA provides (fetch-and-add, the "+" reduction, GA_Zero and the     *)
(* barrier) is external: a collective call completes when every member has *)
(* entered it, and each member goes on from there in its own time.         *)
(***************************************************************************)
EXTENDS Integers, FiniteSets

CONSTANTS Rank,         \* the processes of the manager's group
          Groups,       \* the sub-communicators: a partition of Rank
          TaskCounts,   \* the arguments set() may be called with
          MaxRounds,    \* bound: calls of set()
          MaxCancels,   \* bound: calls of cancel() between two calls of set()
          IntMax        \* the largest value of the counter's C int

ASSUME RankAssumption == Rank # {} /\ IsFiniteSet(Rank)
ASSUME GroupsAssumption ==
  /\ Groups \subseteq (SUBSET Rank) \ {{}}
  /\ \A r \in Rank : \E g \in Groups : r \in g
  /\ \A g, h \in Groups : g # h => g \cap h = {}
ASSUME CountsAssumption ==
  /\ TaskCounts \subseteq Nat
  /\ MaxRounds \in Nat
  /\ MaxCancels \in Nat
  /\ IntMax \in Nat

VARIABLES
  counter,     \* the one-element global array p_GAcounter
  ntasks,      \* p_ntasks of each process
  taskCount,   \* p_task_count of each process
  next,        \* *next of the call the process is in, or of its last call
  pc,          \* where each process is
  received,    \* the ids each process was given in this round
  round,       \* how many times the counter has been zeroed by set()
  grouped,     \* does this round use nextTask(comm, next)?
  limit,       \* the argument of this round's set()
  cancels,     \* calls of cancel() in this round
  overflowed   \* has the counter ever passed IntMax?

vars == <<counter, ntasks, taskCount, next, pc, received, round, grouped,
          limit, cancels, overflowed>>

-----------------------------------------------------------------------------
GroupOf(r) == CHOOSE g \in Groups : r \in g

(* The processes that draw one task together. *)
Team(r) == IF grouped THEN GroupOf(r) ELSE {r}

(* comm.rank() == 0 *)
Leader(t) == CHOOSE r \in t : TRUE

(* A C int of the global array wraps around. *)
Wrap(x) == IF x > IntMax THEN x - 2 * (IntMax + 1) ELSE x

(* NGA_Read_inc: the addition of inc; the caller keeps the old value. *)
ReadInc(inc) ==
  /\ counter' = Wrap(counter + inc)
  /\ overflowed' = (overflowed \/ counter + inc > IntMax)

Init ==
  /\ counter = 0
  /\ ntasks = [r \in Rank |-> 0]
  /\ taskCount = [r \in Rank |-> 0]
  /\ next = [r \in Rank |-> -1]
  /\ pc = [r \in Rank |-> "out"]
  /\ received = [r \in Rank |-> {}]
  /\ round = 0
  /\ grouped = FALSE
  /\ limit = 0
  /\ cancels = 0
  /\ overflowed = FALSE

-----------------------------------------------------------------------------
(* Plausible bugs, for the mutants. *)

(* set() does not zero the counter. *)
ZeroCompleteNot(n, g) ==
  /\ \A r \in Rank : pc[r] = "zero"
  /\ limit' = n
  /\ grouped' = g
  /\ round' = round + 1
  /\ received' = [r \in Rank |-> {}]
  /\ cancels' = 0
  /\ pc' = [r \in Rank |-> "assign"]
  /\ UNCHANGED <<counter, ntasks, taskCount, next, overflowed>>

(* Every member of a sub-communicator draws. *)
NextTaskCommAll(r) ==
  /\ grouped
  /\ pc[r] = "idle"
  /\ next' = [next EXCEPT ![r] = counter]
  /\ ReadInc(1)
  /\ pc' = [pc EXCEPT ![r] = "igop"]
  /\ UNCHANGED <<ntasks, taskCount, received, round, grouped, limit, cancels>>

(* The sum does not reach the members that contributed 0. *)
IgopRootOnly(g) ==
  /\ \A r \in g : pc[r] = "igop"
  /\ pc' = [r \in Rank |-> IF r \in g THEN "test" ELSE pc[r]]
  /\ UNCHANGED <<counter, ntasks, taskCount, next, received, round, grouped,
                 limit, cancels, overflowed>>

(* Only the rank that drew waits in the barrier. *)
RefuseLeader(r) ==
  /\ pc[r] = "test"
  /\ next[r] >= ntasks[r]
  /\ next' = [next EXCEPT ![r] = -1]
  /\ pc' = [pc EXCEPT ![r] = IF r = Leader(Team(r)) THEN "sync" ELSE "out"]
  /\ UNCHANGED <<counter, ntasks, taskCount, received, round, grouped, limit,
                 cancels, overflowed>>

(* cancel() stores the limit instead of adding it, *)
CancelStores(r) ==
  /\ pc[r] = "idle"
  /\ taskCount[r] > 0
  /\ cancels < MaxCancels
  /\ counter' = ntasks[r]
  /\ cancels' = cancels + 1
  /\ UNCHANGED <<ntasks, taskCount, next, pc, received, round, grouped, limit,
                 overflowed>>

(* or takes one id like nextTask. *)
CancelOne(r) ==
  /\ pc[r] = "idle"
  /\ taskCount[r] > 0
  /\ cancels < MaxCancels
  /\ ReadInc(1)
  /\ cancels' = cancels + 1
  /\ UNCHANGED <<ntasks, taskCount, next, pc, received, round, grouped, limit>>

(* set(ntasks): GA_Zero is collective, the two assignments are not.        *)
EnterSet(r) ==
  /\ pc[r] = "out"
  /\ round < MaxRounds
  /\ pc' = [pc EXCEPT ![r] = "zero"]
  /\ UNCHANGED <<counter, ntasks, taskCount, next, received, round, grouped,
                 limit, cancels, overflowed>>

(* Every process is in GA_Zero.  All of them pass the same n (the manual   *)
(* asks for it) and use the same form of nextTask until the next set().    *)
ZeroComplete(n, g) ==
  /\ \A r \in Rank : pc[r] = "zero"
  /\ counter' = 0
  /\ limit' = n
  /\ grouped' = g
  /\ round' = round + 1
  /\ received' = [r \in Rank |-> {}]
  /\ cancels' = 0
  /\ pc' = [r \in Rank |-> "assign"]
  /\ UNCHANGED <<ntasks, taskCount, next, overflowed>>

Assign(r) ==
  /\ pc[r] = "assign"
  /\ ntasks' = [ntasks EXCEPT ![r] = limit]
  /\ taskCount' = [taskCount EXCEPT ![r] = 0]
  /\ pc' = [pc EXCEPT ![r] = "idle"]
  /\ UNCHANGED <<counter, next, received, round, grouped, limit, cancels,
                 overflowed>>

(* nextTask(next): the caller draws for itself. *)
NextTask(r) ==
  /\ ~ grouped
  /\ pc[r] = "idle"
  /\ next' = [next EXCEPT ![r] = counter]
  /\ ReadInc(1)
  /\ pc' = [pc EXCEPT ![r] = "test"]
  /\ UNCHANGED <<ntasks, taskCount, received, round, grouped, limit, cancels>>

(* nextTask(comm, next): rank 0 of comm draws, the others contribute 0.    *)
NextTaskComm(r) ==
  /\ grouped
  /\ pc[r] = "idle"
  /\ IF r = Leader(Team(r))
     THEN /\ next' = [next EXCEPT ![r] = counter]
          /\ ReadInc(1)
     ELSE /\ next' = [next EXCEPT ![r] = 0]
          /\ UNCHANGED <<counter, overflowed>>
  /\ pc' = [pc EXCEPT ![r] = "igop"]
  /\ UNCHANGED <<ntasks, taskCount, received, round, grouped, limit, cancels>>

(* GA_Pgroup_igop(..., "+"): every member leaves with the sum; since all   *)
(* but rank 0 contributed 0, the sum is what rank 0 contributed.           *)
Igop(g) ==
  /\ \A r \in g : pc[r] = "igop"
  /\ next' = [r \in Rank |-> IF r \in g THEN next[Leader(g)] ELSE next[r]]
  /\ pc' = [r \in Rank |-> IF r \in g THEN "test" ELSE pc[r]]
  /\ UNCHANGED <<counter, ntasks, taskCount, received, round, grouped, limit,
                 cancels, overflowed>>

(* The comparison with p_ntasks: both forms of nextTask end alike. *)
Accept(r) ==
  /\ pc[r] = "test"
  /\ next[r] < ntasks[r]
  /\ taskCount' = [taskCount EXCEPT ![r] = @ + 1]
  /\ received' = [received EXCEPT ![r] = @ \cup {next[r]}]
  /\ pc' = [pc EXCEPT ![r] = "idle"]
  /\ UNCHANGED <<counter, ntasks, next, round, grouped, limit, cancels,
                 overflowed>>

Refuse(r) ==
  /\ pc[r] = "test"
  /\ next[r] >= ntasks[r]
  /\ next' = [next EXCEPT ![r] = -1]
  /\ pc' = [pc EXCEPT ![r] = "sync"]
  /\ UNCHANGED <<counter, ntasks, taskCount, received, round, grouped, limit,
                 cancels, overflowed>>

(* GA_Pgroup_sync(p_grp): over the manager's whole group, whatever comm is. *)
SyncComplete ==
  /\ \A r \in Rank : pc[r] = "sync"
  /\ pc' = [r \in Rank |-> "out"]
  /\ UNCHANGED <<counter, ntasks, taskCount, next, received, round, grouped,
                 limit, cancels, overflowed>>

(* cancel(), by a process that has called nextTask (the NOTE of its        *)
(* comment) and that will call it until it returns false.                  *)
Cancel(r) ==
  /\ pc[r] = "idle"
  /\ taskCount[r] > 0
  /\ cancels < MaxCancels
  /\ ReadInc(ntasks[r])
  /\ cancels' = cancels + 1
  /\ UNCHANGED <<ntasks, taskCount, next, pc, received, round, grouped, limit>>

(* Every loop of every process is over. *)
Finished == round = MaxRounds /\ \A r \in Rank : pc[r] = "out"

Stop == Finished /\ UNCHANGED vars

Step(r) ==
  \/ EnterSet(r)
  \/ Assign(r)
  \/ NextTask(r)
  \/ NextTaskComm(r)
  \/ Accept(r)
  \/ Refuse(r)

Collective ==
  \/ \E n \in TaskCounts, g \in BOOLEAN : ZeroComplete(n, g)
  \/ \E g \in Groups : Igop(g)
  \/ SyncComplete

Next ==
  \/ \E r \in Rank : Step(r) \/ Cancel(r)
  \/ Collective
  \/ Stop

Spec == Init /\ [][Next]_vars

(* A process that can run does, and a collective call that everybody has   *)
(* entered returns: MPI's progress, and nothing about cancel().            *)
FairSpec ==
  /\ Spec
  /\ \A r \in Rank : WF_vars(Step(r))
  /\ WF_vars(Collective)

-----------------------------------------------------------------------------
TypeOK ==
  /\ counter \in Int
  /\ ntasks \in [Rank -> Nat]
  /\ taskCount \in [Rank -> Nat]
  /\ next \in [Rank -> Int]
  /\ pc \in [Rank -> {"out", "zero", "assign", "idle", "igop", "test", "sync"}]
  /\ received \in [Rank -> SUBSET Int]
  /\ round \in Nat
  /\ grouped \in BOOLEAN
  /\ limit \in TaskCounts \cup {0}
  /\ cancels \in Nat
  /\ overflowed \in BOOLEAN

(* The id a team has drawn and not every member has looked at yet.         *)
Drawn(r) ==
  \/ pc[r] = "test"
  \/ pc[r] = "igop" /\ r = Leader(Team(r))

(* The ids a process was given or holds drawn. *)
IdsOf(r) == received[r] \cup (IF Drawn(r) THEN {next[r]} ELSE {})

(* No id is given to two teams: an id one process was given, or holds      *)
(* drawn, is neither given to nor drawn by a process of another team.      *)
(* This is "once and only once" of the manual for nextTask racing itself.  *)
OnlyOnce ==
  \A r, s \in Rank :
    (s \notin Team(r) /\ ~ overflowed) => IdsOf(r) \cap IdsOf(s) = {}

(* When nextTask has returned false to anybody, every id of the round has  *)
(* been given to somebody, unless the round was cancelled: the barrier     *)
(* holds the early finishers back until the last task has been handed out. *)
AllGiven ==
  (cancels = 0 /\ ~ overflowed /\ \E r \in Rank : pc[r] = "out") =>
     UNION {received[r] : r \in Rank} = 0 .. (limit - 1)

(* The members of a sub-communicator work on the same tasks: none is given *)
(* an id another member was not given, once neither is still in the call.  *)
SameTasks ==
  \A r \in Rank : \A s \in Team(r) :
    (pc[r] # "test" /\ pc[s] # "test") => received[r] = received[s]

DrawsNothing ==
  \A r \in Rank :
    (cancels > 0 /\ pc[r] = "idle" /\ Drawn(r)' /\ ~ overflowed)
      => next'[r] >= ntasks[r]

(* cancel() "so that all subsequent calls to nextTask return false": an id *)
(* drawn after a cancel is never below the number of tasks.  (A member of  *)
(* a sub-communicator may still call nextTask after the cancel and be      *)
(* given the id its rank 0 drew before it.)                                *)
CancelIsFinal == [][DrawsNothing]_vars

(* Nobody waits for ever in a reduction or in the barrier: all loops end.  *)
Terminates == <>[]Finished

-----------------------------------------------------------------------------
(* The task manager implements the abstract pool: an id counts as handed   *)
(* out from the moment it is drawn.                                        *)
Holding ==
  {p \in {Team(r) : r \in Rank} \X (0 .. (limit - 1)) :
     \E r \in Rank : p[1] = Team(r) /\ p[2] \in IdsOf(r)}

Pool == INSTANCE TaskPool
          WITH Teams <- SUBSET Rank,
               n <- limit, handed <- Holding, closed <- (cancels > 0)

ImplementsPool == Pool!Spec

=============================================================================
