------------------------- MODULE TaskManagerProofs -------------------------
(***************************************************************************)
(* Proofs about TaskManager, for every set of processes, every partition   *)
(* of it into sub-communicators and every number of tasks.  All of them    *)
(* rest on one inductive invariant, IInv: ids below the counter have been  *)
(* drawn, ids from the counter on have not.                                *)
(***************************************************************************)
EXTENDS TaskManager, TLAPS

(* Where a process is told the number of tasks and may draw. *)
Working == {"idle", "igop", "test", "sync"}

(* A set() has completed and its processes are not through with it. *)
InRound == {"assign"} \cup Working

(* What the processes in a round know of it. *)
RoundInv ==
  \A r \in Rank :
    /\ pc[r] \in Working => ntasks[r] = limit
    /\ pc[r] = "igop" => grouped
    /\ pc[r] \in InRound => \A s \in Rank : pc[s] \in InRound

(* The ids below the counter are the ones that were drawn. *)
CounterInv ==
  /\ counter \in Nat
  /\ \A r \in Rank : \A id \in IdsOf(r) : id \in Nat /\ id < counter
  /\ \A r \in Rank : \A id \in received[r] : id < limit
  /\ cancels > 0 => counter >= limit

(* No id is lost: one below the counter is with somebody, and a process    *)
(* was sent to the barrier only by a counter at or past the limit.         *)
NoneLost ==
  /\ \A id \in Nat :
       (id < counter /\ id < limit) => \E r \in Rank : id \in IdsOf(r)
  /\ \A r \in Rank : pc[r] \in {"sync", "out", "zero"} => counter >= limit

(* What a process was given, or will be as soon as it looks at next. *)
Got(r) ==
  received[r] \cup
  (IF pc[r] = "test" /\ next[r] < ntasks[r] THEN {next[r]} ELSE {})

SameGot == \A r \in Rank : \A s \in Team(r) : Got(r) = Got(s)

(* What holds of the ids as long as the counter has not wrapped around. *)
IdsInv ==
  /\ CounterInv
  /\ OnlyOnce
  /\ cancels = 0 => NoneLost

IInv == TypeOK /\ RoundInv /\ SameGot /\ (~ overflowed => IdsInv)

-----------------------------------------------------------------------------
(* The sub-communicators partition the processes. *)
LEMMA Partition ==
  ASSUME NEW g \in Groups
  PROVE  /\ Leader(g) \in g
         /\ g \subseteq Rank
         /\ \A r \in g : GroupOf(r) = g
<1>1. g # {} /\ g \subseteq Rank
  BY GroupsAssumption
<1>2. Leader(g) \in g
  BY <1>1 DEF Leader
<1>3. ASSUME NEW r \in g PROVE GroupOf(r) = g
  <2>1. GroupOf(r) \in Groups /\ r \in GroupOf(r)
    BY DEF GroupOf
  <2>. QED BY <2>1, GroupsAssumption
<1>. QED BY <1>1, <1>2, <1>3

LEMMA TeamFacts ==
  ASSUME NEW r \in Rank
  PROVE  /\ r \in Team(r)
         /\ Team(r) \subseteq Rank
         /\ \A s \in Team(r) : Team(s) = Team(r)
<1>1. \E g \in Groups : r \in g
  BY GroupsAssumption
<1>2. PICK g \in Groups : r \in g
  BY <1>1
<1>. QED BY <1>2, Partition DEF Team

-----------------------------------------------------------------------------
LEMMA ReadIncType ==
  ASSUME TypeOK, NEW inc \in Nat, ReadInc(inc)
  PROVE  counter' \in Int /\ overflowed' \in BOOLEAN
BY CountsAssumption DEF TypeOK, ReadInc, Wrap

LEMMA TypeStep == TypeOK /\ [Next]_vars => TypeOK'
<1>. SUFFICES ASSUME TypeOK, [Next]_vars PROVE TypeOK'
  OBVIOUS
<1>. USE CountsAssumption DEF TypeOK
<1>1. ASSUME NEW r \in Rank, EnterSet(r) PROVE TypeOK'
  BY <1>1 DEF EnterSet
<1>2. ASSUME NEW n \in TaskCounts, NEW g \in BOOLEAN, ZeroComplete(n, g)
      PROVE  TypeOK'
  BY <1>2 DEF ZeroComplete
<1>3. ASSUME NEW r \in Rank, Assign(r) PROVE TypeOK'
  BY <1>3 DEF Assign
<1>4. ASSUME NEW r \in Rank, NextTask(r) PROVE TypeOK'
  BY <1>4, ReadIncType DEF NextTask
<1>5. ASSUME NEW r \in Rank, NextTaskComm(r) PROVE TypeOK'
  <2>1. counter' \in Int /\ overflowed' \in BOOLEAN
    BY <1>5, ReadIncType DEF NextTaskComm
  <2>2. next' \in [Rank -> Int]
    BY <1>5 DEF NextTaskComm
  <2>. QED BY <1>5, <2>1, <2>2 DEF NextTaskComm
<1>6. ASSUME NEW g \in Groups, Igop(g) PROVE TypeOK'
  <2>1. Leader(g) \in Rank
    BY Partition
  <2>. QED BY <1>6, <2>1 DEF Igop
<1>7. ASSUME NEW r \in Rank, Accept(r) PROVE TypeOK'
  BY <1>7 DEF Accept
<1>8. ASSUME NEW r \in Rank, Refuse(r) PROVE TypeOK'
  BY <1>8 DEF Refuse
<1>9. CASE SyncComplete
  BY <1>9 DEF SyncComplete
<1>10. ASSUME NEW r \in Rank, Cancel(r) PROVE TypeOK'
  BY <1>10, ReadIncType DEF Cancel
<1>11. CASE UNCHANGED vars
  BY <1>11 DEF vars
<1>. QED
  BY <1>1, <1>2, <1>3, <1>4, <1>5, <1>6, <1>7, <1>8, <1>9, <1>10, <1>11
  DEF Next, Step, Collective, Stop

LEMMA InitType == Init => TypeOK
<1>. SUFFICES ASSUME Init PROVE TypeOK
  OBVIOUS
<1>1. /\ next \in [Rank -> Int]
      /\ received \in [Rank -> SUBSET Int]
  BY DEF Init
<1>2. /\ ntasks \in [Rank -> Nat]
      /\ taskCount \in [Rank -> Nat]
      /\ pc \in [Rank -> {"out", "zero", "assign", "idle", "igop", "test",
                          "sync"}]
  BY DEF Init
<1>3. /\ counter \in Int /\ round \in Nat /\ cancels \in Nat
      /\ limit \in TaskCounts \cup {0}
  BY DEF Init
<1>4. grouped \in BOOLEAN /\ overflowed \in BOOLEAN
  BY Zenon DEF Init
<1>. QED BY <1>1, <1>2, <1>3, <1>4 DEF TypeOK

(* The declared types hold in every reachable state. *)
THEOREM TypeCorrect == Spec => []TypeOK
<1>. QED BY InitType, TypeStep, PTL DEF Spec


-----------------------------------------------------------------------------
(* What each step does to the ids that processes were given or hold drawn. *)

LEMMA IdsKept ==
  ASSUME TypeOK, RoundInv,
         \/ \E r \in Rank : EnterSet(r) \/ Assign(r) \/ Accept(r) \/ Cancel(r)
         \/ SyncComplete
         \/ UNCHANGED vars
  PROVE  \A s \in Rank : IdsOf(s)' = IdsOf(s) /\ Team(s)' = Team(s)
<1>. USE DEF IdsOf, Drawn, Team, TypeOK
<1>1. ASSUME NEW r \in Rank, EnterSet(r)
      PROVE  \A s \in Rank : IdsOf(s)' = IdsOf(s) /\ Team(s)' = Team(s)
  BY <1>1 DEF EnterSet
<1>2. ASSUME NEW r \in Rank, Assign(r)
      PROVE  \A s \in Rank : IdsOf(s)' = IdsOf(s) /\ Team(s)' = Team(s)
  BY <1>2 DEF Assign
<1>3. ASSUME NEW r \in Rank, Accept(r)
      PROVE  \A s \in Rank : IdsOf(s)' = IdsOf(s) /\ Team(s)' = Team(s)
  BY <1>3 DEF Accept
<1>4. ASSUME NEW r \in Rank, Cancel(r)
      PROVE  \A s \in Rank : IdsOf(s)' = IdsOf(s) /\ Team(s)' = Team(s)
  BY <1>4 DEF Cancel
<1>5. CASE SyncComplete
  BY <1>5 DEF SyncComplete
<1>6. CASE UNCHANGED vars
  BY <1>6 DEF vars
<1>. QED BY <1>1, <1>2, <1>3, <1>4, <1>5, <1>6

LEMMA IdsRefused ==
  ASSUME TypeOK, RoundInv, NEW r \in Rank, Refuse(r)
  PROVE  \A s \in Rank :
           /\ Team(s)' = Team(s)
           /\ IdsOf(s)' \subseteq IdsOf(s)
           /\ \A id \in IdsOf(s) : id < limit => id \in IdsOf(s)'
<1>1. next[r] >= limit
  BY DEF Refuse, RoundInv, Working
<1>2. \A s \in Rank : s # r => pc'[s] = pc[s] /\ next'[s] = next[s]
  BY DEF Refuse, TypeOK
<1>3. pc[r] = "test" /\ pc'[r] = "sync"
  BY DEF Refuse, TypeOK
<1>4. limit \in Nat /\ next[r] \in Int
  BY CountsAssumption DEF TypeOK
<1>. QED
  BY <1>1, <1>2, <1>3, <1>4 DEF Refuse, IdsOf, Drawn, Team

(* A process that draws for its team gets the id the counter stood at. *)
Draws(r) ==
  /\ pc[r] = "idle"
  /\ \A s \in Rank :
       /\ Team(s)' = Team(s)
       /\ s # r => IdsOf(s)' = IdsOf(s)
  /\ \/ /\ ReadInc(1)
        /\ IdsOf(r)' = IdsOf(r) \cup {counter}
     \/ /\ UNCHANGED <<counter, overflowed>>
        /\ IdsOf(r)' = IdsOf(r)

LEMMA IdsDrawn ==
  ASSUME TypeOK, NEW r \in Rank, NextTask(r) \/ NextTaskComm(r)
  PROVE  Draws(r)
<1>1. CASE NextTask(r)
  BY <1>1 DEF NextTask, Draws, IdsOf, Drawn, Team, TypeOK
<1>2. CASE NextTaskComm(r)
  <2>1. grouped /\ grouped'
    BY <1>2 DEF NextTaskComm
  <2>2. \A s \in Rank : s # r => pc'[s] = pc[s] /\ next'[s] = next[s]
    BY <1>2 DEF NextTaskComm, TypeOK
  <2>3. \A s \in Rank : Team(s)' = Team(s)
    BY <2>1 DEF Team
  <2>4. \A s \in Rank : s # r => IdsOf(s)' = IdsOf(s)
    BY <1>2, <2>2, <2>3 DEF NextTaskComm, IdsOf, Drawn
  <2>5. CASE r = Leader(Team(r))
    BY <1>2, <2>3, <2>4, <2>5 DEF NextTaskComm, Draws, IdsOf, Drawn, TypeOK
  <2>6. CASE r # Leader(Team(r))
    BY <1>2, <2>3, <2>4, <2>6 DEF NextTaskComm, Draws, IdsOf, Drawn, TypeOK
  <2>. QED BY <2>5, <2>6
<1>. QED BY <1>1, <1>2

LEMMA IdsReduced ==
  ASSUME TypeOK, RoundInv, NEW g \in Groups, Igop(g)
  PROVE  /\ grouped /\ Leader(g) \in g /\ g \subseteq Rank
         /\ \A s \in Rank : Team(s)' = Team(s)
         /\ \A s \in Rank \ g : IdsOf(s)' = IdsOf(s)
         /\ \A s \in g : /\ Team(s) = g
                        /\ IdsOf(s)' = received[s] \cup {next[Leader(g)]}
         /\ next[Leader(g)] \in IdsOf(Leader(g))
<1>1. /\ Leader(g) \in g /\ g \subseteq Rank
      /\ \A s \in g : GroupOf(s) = g
  BY Partition
<1>2. grouped /\ grouped'
  BY <1>1 DEF Igop, RoundInv
<1>3. \A s \in Rank : Team(s)' = Team(s)
  BY <1>2 DEF Team
<1>4. \A s \in g : Team(s) = g
  BY <1>1, <1>2 DEF Team
<1>5. \A s \in Rank \ g : IdsOf(s)' = IdsOf(s)
  BY <1>3 DEF Igop, IdsOf, Drawn
<1>6. \A s \in g : IdsOf(s)' = received[s] \cup {next[Leader(g)]}
  BY <1>1 DEF Igop, IdsOf, Drawn
<1>7. next[Leader(g)] \in IdsOf(Leader(g))
  BY <1>1, <1>4 DEF Igop, IdsOf, Drawn
<1>. QED BY <1>1, <1>2, <1>3, <1>4, <1>5, <1>6, <1>7


-----------------------------------------------------------------------------
LEMMA RoundStep ==
  TypeOK /\ RoundInv /\ [Next]_vars => RoundInv'
<1>. SUFFICES ASSUME TypeOK, RoundInv, [Next]_vars PROVE RoundInv'
  OBVIOUS
<1>. USE DEF TypeOK, RoundInv, Working, InRound
<1>1. ASSUME NEW r \in Rank, EnterSet(r)
      PROVE  RoundInv'
  BY <1>1 DEF EnterSet
<1>2. ASSUME NEW n \in TaskCounts, NEW g \in BOOLEAN, ZeroComplete(n, g)
      PROVE  RoundInv'
  BY <1>2 DEF ZeroComplete
<1>3. ASSUME NEW r \in Rank, Assign(r)
      PROVE  RoundInv'
  BY <1>3 DEF Assign
<1>4. ASSUME NEW r \in Rank, NextTask(r)
      PROVE  RoundInv'
  BY <1>4 DEF NextTask
<1>5. ASSUME NEW r \in Rank, NextTaskComm(r)
      PROVE  RoundInv'
  BY <1>5 DEF NextTaskComm
<1>6. ASSUME NEW g \in Groups, Igop(g)
      PROVE  RoundInv'
  BY <1>6 DEF Igop
<1>7. ASSUME NEW r \in Rank, Accept(r)
      PROVE  RoundInv'
  BY <1>7 DEF Accept
<1>8. ASSUME NEW r \in Rank, Refuse(r)
      PROVE  RoundInv'
  BY <1>8 DEF Refuse
<1>9. CASE SyncComplete
  BY <1>9 DEF SyncComplete
<1>10. ASSUME NEW r \in Rank, Cancel(r)
      PROVE  RoundInv'
  BY <1>10 DEF Cancel
<1>11. CASE UNCHANGED vars
  BY <1>11 DEF vars
<1>. QED
  BY <1>1, <1>2, <1>3, <1>4, <1>5, <1>6, <1>7, <1>8, <1>9, <1>10, <1>11
  DEF Next, Step, Collective, Stop

(* Only nextTask(next), a reduction and a new round change what a process  *)
(* has got.                                                                *)
LEMMA GotKept ==
  ASSUME TypeOK,
         \/ \E r \in Rank : Cancel(r) \/ (Step(r) /\ ~ NextTask(r))
         \/ SyncComplete
         \/ UNCHANGED vars
  PROVE  \A s \in Rank : Got(s)' = Got(s) /\ Team(s)' = Team(s)
<1>. USE DEF Got, Team, TypeOK
<1>1. ASSUME NEW r \in Rank, EnterSet(r)
      PROVE  \A s \in Rank : Got(s)' = Got(s) /\ Team(s)' = Team(s)
  BY <1>1 DEF EnterSet
<1>2. ASSUME NEW r \in Rank, Assign(r)
      PROVE  \A s \in Rank : Got(s)' = Got(s) /\ Team(s)' = Team(s)
  BY <1>2 DEF Assign
<1>3. ASSUME NEW r \in Rank, NextTaskComm(r)
      PROVE  \A s \in Rank : Got(s)' = Got(s) /\ Team(s)' = Team(s)
  <2>1. pc[r] = "idle" /\ pc'[r] = "igop" /\ UNCHANGED <<received, grouped>>
    BY <1>3 DEF NextTaskComm
  <2>2. \A s \in Rank : s # r => pc'[s] = pc[s] /\ next'[s] = next[s]
    BY <1>3 DEF NextTaskComm
  <2>3. UNCHANGED ntasks
    BY <1>3 DEF NextTaskComm
  <2>. QED BY <2>1, <2>2, <2>3
<1>4. ASSUME NEW r \in Rank, Accept(r)
      PROVE  \A s \in Rank : Got(s)' = Got(s) /\ Team(s)' = Team(s)
  BY <1>4 DEF Accept
<1>5. ASSUME NEW r \in Rank, Refuse(r)
      PROVE  \A s \in Rank : Got(s)' = Got(s) /\ Team(s)' = Team(s)
  BY <1>5 DEF Refuse
<1>6. ASSUME NEW r \in Rank, Cancel(r)
      PROVE  \A s \in Rank : Got(s)' = Got(s) /\ Team(s)' = Team(s)
  BY <1>6 DEF Cancel
<1>7. CASE SyncComplete
  BY <1>7 DEF SyncComplete
<1>8. CASE UNCHANGED vars
  BY <1>8 DEF vars
<1>. QED BY <1>1, <1>2, <1>3, <1>4, <1>5, <1>6, <1>7, <1>8 DEF Step

LEMMA GotStep ==
  TypeOK /\ RoundInv /\ SameGot /\ [Next]_vars => SameGot'
<1>. SUFFICES ASSUME TypeOK, RoundInv, SameGot, [Next]_vars PROVE SameGot'
  OBVIOUS
<1>1. CASE \/ \E r \in Rank : Cancel(r) \/ (Step(r) /\ ~ NextTask(r))
           \/ SyncComplete
           \/ UNCHANGED vars
  BY <1>1, GotKept, TeamFacts DEF SameGot
<1>2. ASSUME NEW n \in TaskCounts, NEW g \in BOOLEAN, ZeroComplete(n, g)
      PROVE  SameGot'
  <2>1. \A s \in Rank : Got(s)' = {}
    BY <1>2 DEF ZeroComplete, Got
  <2>2. \A s \in Rank : Team(s)' \subseteq Rank
    BY Partition, GroupsAssumption DEF Team, GroupOf
  <2>. QED BY <2>1, <2>2 DEF SameGot
<1>3. ASSUME NEW g \in Groups, Igop(g) PROVE SameGot'
  <2>1. /\ Leader(g) \in g /\ g \subseteq Rank
        /\ \A s \in g : Team(s) = g
        /\ \A s \in Rank : Team(s)' = Team(s)
    BY <1>3, IdsReduced
  <2>2. \A s \in Rank \ g : Got(s)' = Got(s)
    BY <1>3 DEF Igop, Got
  <2>3. \A s \in g : Got(s) = received[s]
    BY <1>3 DEF Igop, Got
  <2>4. \A s, t \in g : received[s] = received[t]
    BY <2>1, <2>3 DEF SameGot
  <2>5. \A s, t \in g : ntasks[s] = ntasks[t]
    BY <1>3, <2>1 DEF Igop, RoundInv, Working
  <2>6. \A s, t \in g : Got(s)' = Got(t)'
    BY <1>3, <2>1, <2>4, <2>5 DEF Igop, Got
  <2>7. \A s \in Rank \ g : \A t \in Team(s) : t \notin g
    BY <2>1, TeamFacts
  <2>. QED BY <2>1, <2>2, <2>6, <2>7, TeamFacts DEF SameGot
<1>4. ASSUME NEW r \in Rank, NextTask(r) PROVE SameGot'
  BY <1>4 DEF NextTask, SameGot, Team
<1>. QED BY <1>1, <1>2, <1>3, <1>4 DEF Next, Collective, Stop


-----------------------------------------------------------------------------
LEMMA ReadIncExact ==
  ASSUME TypeOK, counter \in Nat, NEW inc \in Nat, ReadInc(inc), ~ overflowed'
  PROVE  ~ overflowed /\ counter' = counter + inc
BY CountsAssumption DEF TypeOK, ReadInc, Wrap

(* A step that leaves counter, limit, cancels and all ids as they are. *)
LEMMA IdsInvKept ==
  ASSUME TypeOK, RoundInv, IdsInv, ~ overflowed, ~ overflowed',
         UNCHANGED <<counter, limit, cancels>>,
         \A s \in Rank : IdsOf(s)' = IdsOf(s) /\ Team(s)' = Team(s),
         \A s \in Rank : \A id \in received'[s] : id < limit,
         \A s \in Rank : pc'[s] \in {"sync", "out", "zero"} =>
                           pc[s] \in {"sync", "out", "zero"}
  PROVE  IdsInv'
<1>1. CounterInv'
  BY DEF IdsInv, CounterInv
<1>2. OnlyOnce'
  BY DEF IdsInv, OnlyOnce
<1>3. cancels' = 0 => NoneLost'
  BY DEF IdsInv, NoneLost
<1>. QED BY <1>1, <1>2, <1>3 DEF IdsInv

LEMMA IdsInvStep ==
  ASSUME TypeOK, RoundInv, IdsInv, ~ overflowed, ~ overflowed', [Next]_vars
  PROVE  IdsInv'
<1>. USE DEF IdsInv
<1>1. ASSUME NEW r \in Rank, EnterSet(r) PROVE IdsInv'
  <2>1. \A s \in Rank : IdsOf(s)' = IdsOf(s) /\ Team(s)' = Team(s)
    BY <1>1, IdsKept
  <2>. QED BY <1>1, <2>1, IdsInvKept DEF EnterSet, CounterInv, TypeOK
<1>2. ASSUME NEW n \in TaskCounts, NEW g \in BOOLEAN, ZeroComplete(n, g)
      PROVE  IdsInv'
  <2>1. \A s \in Rank : IdsOf(s)' = {} /\ pc'[s] = "assign"
    BY <1>2 DEF ZeroComplete, IdsOf, Drawn
  <2>2. counter' = 0 /\ cancels' = 0 /\ \A s \in Rank : received'[s] = {}
    BY <1>2 DEF ZeroComplete
  <2>. QED BY <2>1, <2>2 DEF CounterInv, OnlyOnce, NoneLost
<1>3. ASSUME NEW r \in Rank, Assign(r) PROVE IdsInv'
  <2>1. \A s \in Rank : IdsOf(s)' = IdsOf(s) /\ Team(s)' = Team(s)
    BY <1>3, IdsKept
  <2>. QED BY <1>3, <2>1, IdsInvKept DEF Assign, CounterInv, TypeOK
<1>4. ASSUME NEW r \in Rank, NextTask(r) \/ NextTaskComm(r) PROVE IdsInv'
  <2>1. Draws(r)
    BY <1>4, IdsDrawn
  <2>2. /\ UNCHANGED <<limit, cancels, received>>
        /\ pc'[r] \in {"test", "igop"}
        /\ \A s \in Rank : s # r => pc'[s] = pc[s]
    BY <1>4 DEF NextTask, NextTaskComm, TypeOK
  <2>3. CASE counter' = counter + 1 /\ IdsOf(r)' = IdsOf(r) \cup {counter}
    <3>1. CounterInv'
      BY <2>1, <2>2, <2>3, CountsAssumption DEF CounterInv, TypeOK, Draws
    <3>2. \A s \in Rank : counter \notin IdsOf(s)
      BY DEF CounterInv
    <3>3. OnlyOnce'
      BY <2>1, <2>3, <3>2, TeamFacts DEF OnlyOnce, Draws
    <3>4. cancels' = 0 => NoneLost'
      BY <2>1, <2>2, <2>3, CountsAssumption
      DEF NoneLost, CounterInv, TypeOK, Draws
    <3>. QED BY <3>1, <3>3, <3>4
  <2>4. CASE counter' = counter /\ IdsOf(r)' = IdsOf(r)
    <3>1. \A s \in Rank : IdsOf(s)' = IdsOf(s) /\ Team(s)' = Team(s)
      BY <2>1, <2>4 DEF Draws
    <3>. QED BY <2>2, <2>4, <3>1, IdsInvKept DEF CounterInv
  <2>. QED BY <2>1, <2>3, <2>4, ReadIncExact DEF Draws, CounterInv
<1>5. ASSUME NEW g \in Groups, Igop(g) PROVE IdsInv'
  <2>. DEFINE L == Leader(g)
  <2>1. /\ L \in Rank /\ L \in g /\ g \subseteq Rank
        /\ \A s \in Rank : Team(s)' = Team(s)
        /\ \A s \in Rank \ g : IdsOf(s)' = IdsOf(s)
        /\ \A s \in g : Team(s) = g /\ IdsOf(s)' = received[s] \cup {next[L]}
        /\ next[L] \in IdsOf(L)
    BY <1>5, IdsReduced
  <2>2. \A s \in g : IdsOf(s)' \subseteq IdsOf(s) \cup IdsOf(L)
    BY <2>1 DEF IdsOf
  <2>3. /\ UNCHANGED <<counter, limit, cancels, received>>
        /\ \A s \in Rank : pc'[s] # pc[s] => pc'[s] = "test"
    BY <1>5 DEF Igop, TypeOK
  <2>4. CounterInv'
    BY <2>1, <2>2, <2>3 DEF CounterInv
  <2>5. OnlyOnce'
    <3>1. ASSUME NEW s \in g, NEW t \in Rank \ g
          PROVE  IdsOf(s)' \cap IdsOf(t)' = {} /\ IdsOf(t)' \cap IdsOf(s)' = {}
      <4>1. t \notin Team(s) /\ t \notin Team(L) /\ s \in Rank
        BY <2>1
      <4>2. IdsOf(s) \cap IdsOf(t) = {} /\ IdsOf(L) \cap IdsOf(t) = {}
        BY <2>1, <4>1 DEF OnlyOnce
      <4>. QED BY <2>1, <2>2, <4>2
    <3>2. ASSUME NEW s \in Rank, NEW t \in Rank, t \notin Team(s)
          PROVE  IdsOf(s)' \cap IdsOf(t)' = {}
      <4>1. CASE s \in g
        BY <2>1, <3>1, <3>2, <4>1
      <4>2. CASE s \notin g /\ t \in g
        BY <3>1, <4>2
      <4>3. CASE s \notin g /\ t \notin g
        BY <2>1, <3>2, <4>3 DEF OnlyOnce
      <4>. QED BY <4>1, <4>2, <4>3
    <3>. QED BY <2>1, <3>2 DEF OnlyOnce
  <2>6. cancels' = 0 => NoneLost'
    <3>1. ASSUME NEW s \in Rank, NEW id \in IdsOf(s)
          PROVE  \E t \in Rank : id \in IdsOf(t)'
      <4>1. CASE s \in g /\ id = next[s] /\ s = L
        BY <2>1, <4>1
      <4>2. CASE id \in received[s]
        BY <2>1, <2>3, <4>2 DEF IdsOf
      <4>3. CASE s \notin g
        BY <2>1, <4>3
      <4>4. s \in g /\ s # L => ~ Drawn(s)
        BY <1>5, <2>1 DEF Igop, Drawn
      <4>. QED BY <4>1, <4>2, <4>3, <4>4 DEF IdsOf
    <3>. QED BY <2>3, <3>1 DEF NoneLost
  <2>. QED BY <2>4, <2>5, <2>6
<1>6. ASSUME NEW r \in Rank, Accept(r) PROVE IdsInv'
  <2>1. \A s \in Rank : IdsOf(s)' = IdsOf(s) /\ Team(s)' = Team(s)
    BY <1>6, IdsKept
  <2>2. next[r] < limit
    BY <1>6 DEF Accept, RoundInv, Working
  <2>. QED BY <1>6, <2>1, <2>2, IdsInvKept DEF Accept, CounterInv, TypeOK
<1>7. ASSUME NEW r \in Rank, Refuse(r) PROVE IdsInv'
  <2>1. \A s \in Rank :
          /\ Team(s)' = Team(s)
          /\ IdsOf(s)' \subseteq IdsOf(s)
          /\ \A id \in IdsOf(s) : id < limit => id \in IdsOf(s)'
    BY <1>7, IdsRefused
  <2>2. /\ UNCHANGED <<counter, limit, cancels, received>>
        /\ \A s \in Rank : s # r => pc'[s] = pc[s]
    BY <1>7 DEF Refuse, TypeOK
  <2>3. counter >= limit
    <3>1. next[r] >= limit
      BY <1>7 DEF Refuse, RoundInv, Working
    <3>2. next[r] \in IdsOf(r)
      BY <1>7 DEF Refuse, IdsOf, Drawn
    <3>. QED BY <3>1, <3>2, CountsAssumption DEF CounterInv, TypeOK
  <2>4. CounterInv'
    BY <2>1, <2>2 DEF CounterInv
  <2>5. OnlyOnce'
    BY <2>1 DEF OnlyOnce
  <2>6. cancels' = 0 => NoneLost'
    BY <2>1, <2>2, <2>3 DEF NoneLost
  <2>. QED BY <2>4, <2>5, <2>6
<1>8. CASE SyncComplete
  <2>1. \A s \in Rank : IdsOf(s)' = IdsOf(s) /\ Team(s)' = Team(s)
    BY <1>8, IdsKept
  <2>. QED BY <1>8, <2>1, IdsInvKept DEF SyncComplete, CounterInv
<1>9. ASSUME NEW r \in Rank, Cancel(r) PROVE IdsInv'
  <2>1. \A s \in Rank : IdsOf(s)' = IdsOf(s) /\ Team(s)' = Team(s)
    BY <1>9, IdsKept
  <2>2. counter' = counter + ntasks[r] /\ ntasks[r] = limit /\ limit \in Nat
    <3>1. ntasks[r] \in Nat /\ ntasks[r] = limit
      BY <1>9 DEF Cancel, RoundInv, Working, TypeOK
    <3>. QED BY <1>9, <3>1, ReadIncExact DEF Cancel, CounterInv
  <2>3. UNCHANGED <<limit, received>> /\ cancels' = cancels + 1
    BY <1>9 DEF Cancel
  <2>4. CounterInv'
    BY <2>1, <2>2, <2>3 DEF CounterInv
  <2>5. OnlyOnce'
    BY <2>1 DEF OnlyOnce
  <2>6. cancels' # 0
    BY <2>3 DEF TypeOK
  <2>. QED BY <2>4, <2>5, <2>6
<1>10. CASE UNCHANGED vars
  <2>1. \A s \in Rank : IdsOf(s)' = IdsOf(s) /\ Team(s)' = Team(s)
    BY <1>10, IdsKept
  <2>. QED BY <1>10, <2>1, IdsInvKept DEF vars, CounterInv
<1>. QED
  BY <1>1, <1>2, <1>3, <1>4, <1>5, <1>6, <1>7, <1>8, <1>9, <1>10
  DEF Next, Step, Collective, Stop

(* A counter that has wrapped around stays marked as such. *)
LEMMA OverflowStays ==
  ASSUME TypeOK, overflowed, [Next]_vars
  PROVE  overflowed'
BY DEF TypeOK, Next, Step, Collective, Stop, EnterSet, ZeroComplete, Assign,
       NextTask, NextTaskComm, Igop, Accept, Refuse, SyncComplete, Cancel,
       ReadInc, vars

THEOREM Inductive == Spec => []IInv
<1>1. Init => IInv
  <2>. SUFFICES ASSUME Init PROVE IInv
    OBVIOUS
  <2>1. TypeOK
    BY InitType
  <2>2. \A r \in Rank : pc[r] = "out" /\ received[r] = {} /\ IdsOf(r) = {}
    BY DEF Init, IdsOf, Drawn
  <2>3. RoundInv
    BY <2>2 DEF RoundInv, Working, InRound
  <2>4. SameGot
    BY <2>2, TeamFacts DEF SameGot, Got
  <2>5. IdsInv
    BY <2>2 DEF Init, IdsInv, CounterInv, OnlyOnce, NoneLost
  <2>. QED BY <2>1, <2>3, <2>4, <2>5 DEF IInv
<1>2. IInv /\ [Next]_vars => IInv'
  BY TypeStep, RoundStep, GotStep, IdsInvStep, OverflowStays DEF IInv
<1>. QED BY <1>1, <1>2, PTL DEF Spec

(* Every id of a round goes to one team only ("once and only once").       *)
THEOREM OnlyOnceHolds == Spec => []OnlyOnce
<1>1. IInv => OnlyOnce
  BY DEF IInv, IdsInv, OnlyOnce
<1>. QED BY <1>1, Inductive, PTL

(* Nobody leaves the task loop before every id has been given out. *)
THEOREM AllGivenHolds == Spec => []AllGiven
<1>1. IInv => AllGiven
  <2>. SUFFICES ASSUME IInv, cancels = 0, ~ overflowed,
                       NEW r \in Rank, pc[r] = "out"
                PROVE  UNION {received[s] : s \in Rank} = 0 .. (limit - 1)
    BY DEF AllGiven
  <2>1. limit \in Nat
    BY CountsAssumption DEF IInv, TypeOK
  <2>2. counter >= limit
    BY DEF IInv, IdsInv, NoneLost
  <2>3. \A s \in Rank : IdsOf(s) = received[s]
    BY DEF IInv, RoundInv, InRound, Working, IdsOf, Drawn
  <2>4. \A s \in Rank : received[s] \subseteq 0 .. (limit - 1)
    BY <2>1, <2>3 DEF IInv, IdsInv, CounterInv
  <2>5. \A id \in 0 .. (limit - 1) : \E s \in Rank : id \in received[s]
    BY <2>1, <2>2, <2>3 DEF IInv, IdsInv, NoneLost, CounterInv
  <2>. QED BY <2>4, <2>5
<1>. QED BY <1>1, Inductive, PTL

(* The members of a sub-communicator work on the same tasks. *)
THEOREM SameTasksHolds == Spec => []SameTasks
<1>1. IInv => SameTasks
  <2>. SUFFICES ASSUME IInv, NEW r \in Rank, NEW s \in Team(r),
                       pc[r] # "test", pc[s] # "test"
                PROVE  received[r] = received[s]
    BY DEF SameTasks
  <2>1. Got(r) = Got(s)
    BY DEF IInv, SameGot
  <2>2. Got(r) = received[r] /\ Got(s) = received[s]
    BY DEF Got
  <2>. QED BY <2>1, <2>2
<1>. QED BY <1>1, Inductive, PTL

(* After a cancel() nobody draws an id below the number of tasks. *)
THEOREM CancelIsFinalHolds == Spec => CancelIsFinal
<1>1. IInv /\ [Next]_vars => [DrawsNothing]_vars
  <2>. SUFFICES ASSUME IInv, Next, NEW r \in Rank,
                       cancels > 0, pc[r] = "idle", Drawn(r)', ~ overflowed
                PROVE  next'[r] >= ntasks[r]
    BY DEF DrawsNothing
  <2>1. counter >= ntasks[r] /\ TypeOK
    BY DEF IInv, IdsInv, CounterInv, RoundInv, Working
  <2>2. CASE NextTask(r)
    BY <2>1, <2>2 DEF NextTask, TypeOK
  <2>3. CASE NextTaskComm(r)
    BY <2>1, <2>3 DEF NextTaskComm, TypeOK, Drawn, Team
  <2>4. CASE ~ NextTask(r) /\ ~ NextTaskComm(r)
    <3>1. ASSUME NEW t \in Rank, Step(t) \/ Cancel(t) PROVE pc'[r] = "idle"
      BY <2>1, <2>4, <3>1 DEF Step, EnterSet, Assign, NextTask, NextTaskComm,
         Accept, Refuse, Cancel, TypeOK
    <3>2. ASSUME NEW g \in Groups, Igop(g) PROVE pc'[r] = "idle"
      BY <2>1, <3>2 DEF Igop, TypeOK
    <3>3. ~ SyncComplete /\ \A n \in TaskCounts, g \in BOOLEAN : ~ ZeroComplete(n, g)
      BY DEF SyncComplete, ZeroComplete
    <3>4. UNCHANGED vars => pc'[r] = "idle"
      BY DEF vars
    <3>5. pc'[r] = "idle"
      BY <3>1, <3>2, <3>3, <3>4 DEF Next, Collective, Stop
    <3>. QED BY <3>5 DEF Drawn
  <2>. QED BY <2>2, <2>3, <2>4
<1>. QED BY <1>1, Inductive, PTL DEF Spec, CancelIsFinal


-----------------------------------------------------------------------------
(* The refinement of TaskPool. *)

(* Is id with some process of team t? *)
HeldBy(t, id) == \E r \in Rank : t = Team(r) /\ id \in IdsOf(r)

LEMMA HoldingKept ==
  ASSUME UNCHANGED limit, \A r \in Rank : Team(r)' = Team(r),
         \A r \in Rank : \A id \in 0 .. (limit - 1) :
           HeldBy(Team(r), id)' <=> HeldBy(Team(r), id)
  PROVE  Holding' = Holding
<1>1. ASSUME NEW p \in {Team(r) : r \in Rank} \X (0 .. (limit - 1))
      PROVE  (\E r \in Rank : p[1] = Team(r)' /\ p[2] \in IdsOf(r)')
             <=> (\E r \in Rank : p[1] = Team(r) /\ p[2] \in IdsOf(r))
  <2>1. PICK r \in Rank, id \in 0 .. (limit - 1) : p = <<Team(r), id>>
    OBVIOUS
  <2>2. HeldBy(Team(r), id)' <=> HeldBy(Team(r), id)
    OBVIOUS
  <2>. QED BY <2>1, <2>2 DEF HeldBy
<1>2. {Team(r) : r \in Rank}' = {Team(r) : r \in Rank}
  OBVIOUS
<1>. QED BY <1>1, <1>2 DEF Holding

LEMMA HoldingGrows ==
  ASSUME UNCHANGED limit, \A r \in Rank : Team(r)' = Team(r),
         NEW r \in Rank, NEW id \in 0 .. (limit - 1),
         IdsOf(r)' = IdsOf(r) \cup {id},
         \A s \in Rank : s # r => IdsOf(s)' = IdsOf(s)
  PROVE  Holding' = Holding \cup {<<Team(r), id>>}
<1>1. \A s \in Rank, x \in 0 .. (limit - 1) :
        HeldBy(Team(s), x)' <=> (HeldBy(Team(s), x) \/ (Team(s) = Team(r) /\ x = id))
  BY DEF HeldBy
<1>2. ASSUME NEW p \in {Team(s) : s \in Rank} \X (0 .. (limit - 1))
      PROVE  (\E s \in Rank : p[1] = Team(s)' /\ p[2] \in IdsOf(s)')
             <=> \/ \E s \in Rank : p[1] = Team(s) /\ p[2] \in IdsOf(s)
                 \/ p = <<Team(r), id>>
  <2>1. PICK s \in Rank, x \in 0 .. (limit - 1) : p = <<Team(s), x>>
    OBVIOUS
  <2>. QED BY <1>1, <2>1 DEF HeldBy
<1>3. {Team(s) : s \in Rank}' = {Team(s) : s \in Rank}
  OBVIOUS
<1>4. <<Team(r), id>> \in {Team(s) : s \in Rank} \X (0 .. (limit - 1))
  OBVIOUS
<1>. QED BY <1>2, <1>3, <1>4 DEF Holding

(* Between two rounds every id of the last one has been handed out. *)
LEMMA RoundIsOver ==
  ASSUME IInv, ~ overflowed, \A r \in Rank : pc[r] = "zero"
  PROVE  cancels > 0 \/ Pool!HandedIds = 0 .. (limit - 1)
<1>. SUFFICES ASSUME cancels = 0 PROVE Pool!HandedIds = 0 .. (limit - 1)
  BY DEF IInv, TypeOK
<1>1. limit \in Nat /\ counter >= limit
  BY RankAssumption, CountsAssumption DEF IInv, TypeOK, IdsInv, NoneLost
<1>2. \A id \in 0 .. (limit - 1) : \E r \in Rank : id \in IdsOf(r)
  BY <1>1 DEF IInv, IdsInv, NoneLost, CounterInv
<1>3. \A id \in 0 .. (limit - 1) : \E r \in Rank : <<Team(r), id>> \in Holding
  BY <1>2 DEF Holding
<1>4. \A p \in Holding : p[2] \in 0 .. (limit - 1)
  BY DEF Holding
<1>5. ASSUME NEW id \in 0 .. (limit - 1) PROVE \E p \in Holding : p[2] = id
  <2>1. PICK r \in Rank : <<Team(r), id>> \in Holding
    BY <1>3
  <2>2. <<Team(r), id>>[2] = id
    OBVIOUS
  <2>. QED BY <2>1, <2>2
<1>6. Pool!HandedIds = {p[2] : p \in Holding}
  BY DEF Pool!HandedIds
<1>. QED BY <1>4, <1>5, <1>6

LEMMA PoolStep ==
  ASSUME IInv, ~ overflowed, ~ overflowed', [Next]_vars
  PROVE  [Pool!Next]_Pool!poolVars
<1>. USE DEF IInv
<1>1. CASE \/ \E r \in Rank : EnterSet(r) \/ Assign(r) \/ Accept(r)
           \/ SyncComplete
           \/ UNCHANGED vars
  <2>1. \A s \in Rank : IdsOf(s)' = IdsOf(s) /\ Team(s)' = Team(s)
    BY <1>1, IdsKept
  <2>2. UNCHANGED <<limit, cancels>>
    BY <1>1 DEF EnterSet, Assign, Accept, SyncComplete, vars
  <2>3. Holding' = Holding
    BY <2>1, <2>2, HoldingKept DEF HeldBy
  <2>. QED BY <2>2, <2>3 DEF Pool!poolVars
<1>2. ASSUME NEW n \in TaskCounts, NEW g \in BOOLEAN, ZeroComplete(n, g)
      PROVE  Pool!Refill(n)
  <2>1. cancels > 0 \/ Pool!HandedIds = 0 .. (limit - 1)
    BY <1>2, RoundIsOver DEF ZeroComplete
  <2>2. \A s \in Rank : IdsOf(s)' = {}
    BY <1>2 DEF ZeroComplete, IdsOf, Drawn
  <2>3. Holding' = {}
    BY <2>2 DEF Holding
  <2>4. limit' = n /\ cancels' = 0
    BY <1>2 DEF ZeroComplete
  <2>. QED BY <2>1, <2>3, <2>4 DEF Pool!Refill
<1>3. ASSUME NEW r \in Rank, NextTask(r) \/ NextTaskComm(r)
      PROVE  [Pool!Next]_Pool!poolVars
  <2>1. Draws(r)
    BY <1>3, IdsDrawn
  <2>2. UNCHANGED <<limit, cancels>> /\ limit \in Nat /\ cancels \in Nat
    BY <1>3, CountsAssumption DEF NextTask, NextTaskComm, TypeOK
  <2>3. Team(r) \in SUBSET Rank
    BY TeamFacts
  <2>4. CASE IdsOf(r)' = IdsOf(r)
    <3>1. Holding' = Holding
      BY <2>1, <2>2, <2>4, HoldingKept DEF HeldBy, Draws
    <3>. QED BY <2>2, <3>1 DEF Pool!poolVars
  <2>5. CASE IdsOf(r)' = IdsOf(r) \cup {counter} /\ counter >= limit
    <3>1. \A s \in Rank : \A id \in 0 .. (limit - 1) :
            id \in IdsOf(s)' <=> id \in IdsOf(s)
      BY <2>1, <2>2, <2>5 DEF Draws, TypeOK
    <3>2. Holding' = Holding
      BY <2>1, <2>2, <3>1, HoldingKept DEF HeldBy, Draws
    <3>. QED BY <2>2, <3>2 DEF Pool!poolVars
  <2>6. CASE IdsOf(r)' = IdsOf(r) \cup {counter} /\ ~ (counter >= limit)
    <3>1. counter \in 0 .. (limit - 1)
      BY <2>2, <2>6 DEF IdsInv, CounterInv
    <3>2. cancels = 0
      BY <2>2, <2>6 DEF IdsInv, CounterInv
    <3>3. Holding' = Holding \cup {<<Team(r), counter>>}
      BY <2>1, <2>2, <2>6, <3>1, HoldingGrows DEF Draws
    <3>4. \A p \in Holding : p[2] # counter
      BY DEF Holding, IdsInv, CounterInv
    <3>5. Pool!HandOut(Team(r), counter)
      BY <2>2, <3>2, <3>3, <3>4 DEF Pool!HandOut
    <3>. QED BY <2>3, <3>1, <3>5 DEF Pool!Next
  <2>. QED BY <2>1, <2>4, <2>5, <2>6 DEF Draws
<1>4. ASSUME NEW g \in Groups, Igop(g) PROVE UNCHANGED Pool!poolVars
  <2>. DEFINE L == Leader(g)
  <2>1. /\ L \in Rank /\ L \in g /\ g \subseteq Rank
        /\ \A s \in Rank : Team(s)' = Team(s)
        /\ \A s \in Rank \ g : IdsOf(s)' = IdsOf(s)
        /\ \A s \in g : Team(s) = g /\ IdsOf(s)' = received[s] \cup {next[L]}
        /\ next[L] \in IdsOf(L)
    BY <1>4, IdsReduced
  <2>2. \A s \in g : IdsOf(s)' \subseteq IdsOf(s) \cup IdsOf(L)
    BY <2>1 DEF IdsOf
  <2>3. \A s \in g : IdsOf(s) \subseteq IdsOf(s)'
    BY <1>4, <2>1 DEF Igop, IdsOf, Drawn
  <2>4. \A t, id : HeldBy(t, id)' <=> HeldBy(t, id)
    BY <2>1, <2>2, <2>3 DEF HeldBy
  <2>5. UNCHANGED <<limit, cancels>>
    BY <1>4 DEF Igop
  <2>6. Holding' = Holding
    BY <2>1, <2>4, <2>5, HoldingKept
  <2>. QED BY <2>5, <2>6 DEF Pool!poolVars
<1>5. ASSUME NEW r \in Rank, Refuse(r) PROVE UNCHANGED Pool!poolVars
  <2>1. \A s \in Rank :
          /\ Team(s)' = Team(s)
          /\ IdsOf(s)' \subseteq IdsOf(s)
          /\ \A id \in IdsOf(s) : id < limit => id \in IdsOf(s)'
    BY <1>5, IdsRefused
  <2>2. UNCHANGED <<limit, cancels>> /\ limit \in Nat
    BY <1>5, CountsAssumption DEF Refuse, TypeOK
  <2>3. Holding' = Holding
    BY <2>1, <2>2, HoldingKept DEF HeldBy
  <2>. QED BY <2>2, <2>3 DEF Pool!poolVars
<1>6. ASSUME NEW r \in Rank, Cancel(r) PROVE Pool!Close
  <2>1. \A s \in Rank : IdsOf(s)' = IdsOf(s) /\ Team(s)' = Team(s)
    BY <1>6, IdsKept
  <2>2. UNCHANGED limit /\ cancels' > 0
    BY <1>6 DEF Cancel, TypeOK
  <2>3. Holding' = Holding
    BY <2>1, <2>2, HoldingKept DEF HeldBy
  <2>. QED BY <2>2, <2>3 DEF Pool!Close
<1>. QED
  BY <1>1, <1>2, <1>3, <1>4, <1>5, <1>6
  DEF Next, Step, Collective, Stop, Pool!Next

(* As long as the counter does not wrap around, the task manager           *)
(* implements the abstract pool: each id to one team, no new set of tasks  *)
(* before the old one is used up or cancelled.                             *)
THEOREM Implements == Spec /\ [](~ overflowed) => ImplementsPool
<1>1. Init => Pool!Init
  BY DEF Init, Pool!Init, Holding, IdsOf, Drawn
<1>. QED BY <1>1, PoolStep, Inductive, PTL DEF Spec, ImplementsPool, Pool!Spec

=============================================================================
