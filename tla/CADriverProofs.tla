--------------------------- MODULE CADriverProofs ---------------------------
(***************************************************************************)
(* Proofs about CADriver, for any set of ranks, devices, events and waves. *)
(* The inductive invariant says who has an event that is claimed and not   *)
(* reported, where a rank can be, and what the maps of a wave rest on.     *)
(*                                                                         *)
(* The second part is about the AsyncRowWriter of a rank (flatPart in      *)
(* ca_driver.cpp), for any number of blocks.                               *)
(***************************************************************************)
EXTENDS CADriver, AsyncRowWriter, SequenceTheorems, TLAPS

Places == {"build", "claim", "barrier", "begin", "split", "retained", "fallback",
           "reduce", "done"}

(* A convergence row. *)
Summary == [task : Int, by : {"none", "batch", "solve"}]
Row == [by : {"none", "batch", "solve"}, status : Status, cs : Summary]

TypeInv ==
  /\ useBatched \in [Rank -> BOOLEAN] /\ nextId \in Nat
  /\ pc \in [Rank -> Places]
  /\ myTasks \in [Rank -> SUBSET Task] /\ noMore \in [Rank -> BOOLEAN]
  /\ built \in [Rank -> BOOLEAN] /\ healthy \in [Rank -> BOOLEAN]
  /\ caches \in [Rank -> {"base", "case"}]
  /\ index \in [Rank -> SUBSET Task] /\ converged \in [Rank -> SUBSET Task]
  /\ summaries \in [Rank -> SUBSET Task]
  /\ retained \in [Rank -> SUBSET Task] /\ fallback \in [Rank -> SUBSET Task]
  /\ convergence \in [Rank -> Summary]
  /\ rows \in [Task -> Seq(Row)]
  /\ clean \subseteq Task

(* The events that rank r has claimed and not yet reported. *)
Todo(r) ==
  CASE pc[r] \in {"claim", "barrier", "begin", "split"} -> myTasks[r]
    [] pc[r] = "retained" -> retained[r] \cup fallback[r]
    [] pc[r] = "fallback" -> fallback[r]
    [] OTHER -> {}

(* An event not yet claimed has no row; one that is claimed has one, or is *)
(* with one rank.                                                          *)
OwnerInv ==
  /\ \A r \in Rank : \A t \in Todo(r) : t < nextId /\ rows[t] = <<>>
  /\ \A r, s \in Rank : r # s => Todo(r) \cap Todo(s) = {}
  /\ \A t \in Task : t >= nextId => rows[t] = <<>>
  /\ \A t \in Task : t < nextId /\ rows[t] = <<>> => \E r \in Rank : t \in Todo(r)
  /\ \A t \in Task : Len(rows[t]) <= 1

(* Where a rank can be, and what it knows there. *)
PlaceInv ==
  \A r \in Rank :
    /\ ~useBatched[r] => pc[r] \in {"claim", "barrier", "done"} /\ myTasks[r] = {}
    /\ pc[r] = "build" => myTasks[r] = {} /\ index[r] = {} /\ healthy[r]
    /\ pc[r] = "retained" => retained[r] \cap fallback[r] = {}
    /\ pc[r] \in {"barrier", "reduce", "done"} \/ noMore[r] => nextId >= NTasks

(* The maps of a wave. *)
MapInv ==
  \A r \in Rank :
    /\ index[r] = summaries[r]
    /\ index[r] \subseteq converged[r] /\ index[r] \subseteq clean
    /\ pc[r] = "split" /\ index[r] # {} => caches[r] = "base" /\ built[r] /\ healthy[r]
    /\ pc[r] = "retained" /\ index[r] # {} =>
         retained[r] \subseteq index[r] /\ caches[r] = "base" /\ built[r] /\ healthy[r]
    /\ useBatched[r] /\ pc[r] # "build" /\ healthy[r] => built[r]
    /\ ~useBatched[r] => index[r] = {}

(* The rows that have been recorded. *)
RowInv == OnlyCleanIsEmitted /\ SummaryIsOwn

(* The inductive invariant. *)
IInv == TypeInv /\ OwnerInv /\ PlaceInv /\ MapInv /\ RowInv

-----------------------------------------------------------------------------
(* What a row may say of event t. *)
Honest(row, t) ==
  /\ row.by = "batch" => t \in clean /\ row.status = "SOLVED"
  /\ row.status = "SOLVED" => row.cs = [task |-> t, by |-> row.by]

(* What runOneCase does to the maps of rank r. *)
MapEffect(r, t) ==
  \/ t \in index[r] /\ KeepBatch /\ UNCHANGED caches
  \/ t \notin index[r] /\ KeepBatch
  \/ GiveUpBatch(r)

(* However a case goes, it adds one honest row for its event and, but for  *)
(* giving up the batch, leaves the maps alone.                             *)
LEMMA CaseEffect ==
  ASSUME TypeInv, MapInv, NEW r \in Rank, NEW t \in Task, RunOneCase(r, t)
  PROVE  /\ \E row \in Row : Honest(row, t) /\ rows' = [rows EXCEPT ![t] = Append(@, row)]
         /\ MapEffect(r, t)
         /\ convergence' \in [Rank -> Summary]
         /\ caches' \in [Rank -> {"base", "case"}]
         /\ \A q \in Rank \ {r} : caches'[q] = caches[q]
<1>0. t \in Int
  BY DriverAssumption DEF Task
<1>1. index[r] = summaries[r] /\ index[r] \subseteq converged[r] /\ index[r] \subseteq clean
  BY DEF MapInv
<1>2. CASE t \in index[r] /\ Overlay(r, t)
  <2>1. convergence' = [convergence EXCEPT ![r] = [task |-> t, by |-> "batch"]]
    BY <1>1, <1>2 DEF Overlay
  <2>2. rows' = [rows EXCEPT ![t] = Append(@, [by |-> "batch", status |-> "SOLVED",
                                               cs |-> [task |-> t, by |-> "batch"]])]
    BY <1>1, <1>2 DEF Overlay, RecordConv
  <2>3. \/ KeepBatch /\ UNCHANGED caches
        \/ GiveUpBatch(r) /\ \E c \in {"base", "case"} : caches' = [caches EXCEPT ![r] = c]
    BY <1>2 DEF Overlay
  <2>4. [by |-> "batch", status |-> "SOLVED", cs |-> [task |-> t, by |-> "batch"]] \in Row
    BY <1>0 DEF Row, Summary, Status
  <2>5. Honest([by |-> "batch", status |-> "SOLVED", cs |-> [task |-> t, by |-> "batch"]], t)
    BY <1>1, <1>2 DEF Honest
  <2>6. convergence' \in [Rank -> Summary]
    BY <2>1, <1>0 DEF TypeInv, Summary
  <2>7. caches' \in [Rank -> {"base", "case"}] /\ \A q \in Rank \ {r} : caches'[q] = caches[q]
    BY <2>3 DEF TypeInv
  <2> QED
    BY <1>2, <2>2, <2>3, <2>4, <2>5, <2>6, <2>7 DEF MapEffect
<1>3. CASE (GiveUpBatch(r) \/ (t \notin index[r] /\ KeepBatch)) /\ SolveCase(r, t)
  <2>1. t \notin summaries'[r]
    BY <1>1, <1>3 DEF GiveUpBatch, KeepBatch, TypeInv
  <2>2. CASE t \notin Solvable
    <3> DEFINE row == [by |-> "none", status |-> "SKIPPED", cs |-> convergence[r]]
    <3>1. rows' = [rows EXCEPT ![t] = Append(@, row)] /\ UNCHANGED <<caches, convergence>>
      BY <1>3, <2>1, <2>2 DEF SolveCase, RecordConv
    <3>2. row \in Row /\ Honest(row, t)
      BY DEF Row, Status, Honest, TypeInv
    <3> QED
      BY <1>3, <3>1, <3>2 DEF MapEffect, TypeInv
  <2>3. CASE t \in Solvable
    <3>1. caches' = [caches EXCEPT ![r] = "case"]
      BY <1>3, <2>3 DEF SolveCase
    <3>2. caches' \in [Rank -> {"base", "case"}] /\ \A q \in Rank \ {r} : caches'[q] = caches[q]
      BY <3>1 DEF TypeInv
    <3>3. ASSUME NEW status \in {"SOLVED", "DIVERGED"},
                 convergence' = [convergence EXCEPT ![r] = [task |-> t, by |-> "solve"]],
                 RecordConv(r, t, "solve", status, summaries'[r])
          PROVE  /\ \E row \in Row : Honest(row, t) /\ rows' = [rows EXCEPT ![t] = Append(@, row)]
                 /\ convergence' \in [Rank -> Summary]
      <4> DEFINE row == [by |-> "solve", status |-> status, cs |-> [task |-> t, by |-> "solve"]]
      <4>1. convergence'[r] = [task |-> t, by |-> "solve"] /\ convergence' \in [Rank -> Summary]
        BY <3>3, <1>0 DEF TypeInv, Summary
      <4>2. rows' = [rows EXCEPT ![t] = Append(@, row)]
        BY <3>3, <4>1, <2>1 DEF RecordConv
      <4>3. row \in Row /\ Honest(row, t)
        BY <1>0 DEF Row, Status, Summary, Honest
      <4> QED
        BY <4>1, <4>2, <4>3
    <3>4. ASSUME UNCHANGED convergence, RecordConv(r, t, "solve", "DIVERGED", summaries'[r])
          PROVE  \E row \in Row : Honest(row, t) /\ rows' = [rows EXCEPT ![t] = Append(@, row)]
      <4> DEFINE row == [by |-> "solve", status |-> "DIVERGED", cs |-> convergence[r]]
      <4>1. rows' = [rows EXCEPT ![t] = Append(@, row)]
        BY <3>4, <2>1 DEF RecordConv
      <4>2. row \in Row /\ Honest(row, t)
        BY DEF Row, Status, Honest, TypeInv
      <4> QED
        BY <4>1, <4>2
    <3>5. \/ /\ convergence' = [convergence EXCEPT ![r] = [task |-> t, by |-> "solve"]]
             /\ \E status \in {"SOLVED", "DIVERGED"} :
                  RecordConv(r, t, "solve", status, summaries'[r])
          \/ UNCHANGED convergence /\ RecordConv(r, t, "solve", "DIVERGED", summaries'[r])
      BY <1>3, <2>3 DEF SolveCase
    <3>6. convergence \in [Rank -> Summary]
      BY DEF TypeInv
    <3> QED
      BY <1>3, <3>2, <3>3, <3>4, <3>5, <3>6 DEF MapEffect
  <2> QED
    BY <2>2, <2>3
<1> QED
  BY <1>2, <1>3 DEF RunOneCase

(* Only events are claimed. *)
LEMMA TodoTasks ==
  ASSUME TypeInv, NEW r \in Rank
  PROVE  Todo(r) \subseteq Task
BY DEF Todo, TypeInv

(* Every step keeps the types. *)
LEMMA TypeStep ==
  ASSUME TypeInv, MapInv, [Next]_vars
  PROVE  TypeInv'
<1>1. ASSUME NEW r \in Rank, Build(r) PROVE TypeInv'
  BY <1>1, DriverAssumption DEF Build, TypeInv, Places, Task, Goto, waveVars
<1>2. ASSUME NEW r \in Rank, ClaimForWave(r) PROVE TypeInv'
  <2>1. CASE nextId < NTasks
    <3>1. nextId \in Task
      BY <2>1, DriverAssumption DEF Task, TypeInv
    <3>2. pc' \in [Rank -> Places]
      BY <1>2, <2>1 DEF ClaimForWave, Goto, TypeInv, Places
    <3>3. nextId' \in Nat /\ myTasks' \in [Rank -> SUBSET Task]
      BY <1>2, <2>1, <3>1 DEF ClaimForWave, NextTask, TypeInv
    <3> QED
      BY <1>2, <3>2, <3>3 DEF ClaimForWave, TypeInv, caseVars
  <2>2. CASE ~(nextId < NTasks)
    BY <1>2, <2>2 DEF ClaimForWave, NextTask, TypeInv, Places, Goto, caseVars
  <2> QED
    BY <2>1, <2>2
<1>3. ASSUME NEW r \in Rank, ClaimAndRun(r) PROVE TypeInv'
  <2>1. CASE nextId < NTasks
    <3>1. RunOneCase(r, nextId) /\ nextId \in Task /\ UNCHANGED pc
      BY <1>3, <2>1, DriverAssumption DEF ClaimAndRun, Task, TypeInv
    <3>2. PICK row \in Row : rows' = [rows EXCEPT ![nextId] = Append(@, row)]
      BY <3>1, CaseEffect
    <3>3. /\ MapEffect(r, nextId)
          /\ convergence' \in [Rank -> Summary] /\ caches' \in [Rank -> {"base", "case"}]
      BY <3>1, CaseEffect
    <3>4. rows' \in [Task -> Seq(Row)]
      BY <3>1, <3>2 DEF TypeInv
    <3>5. healthy' \in [Rank -> BOOLEAN] /\ index' \in [Rank -> SUBSET Task]
          /\ summaries' \in [Rank -> SUBSET Task]
      BY <3>3 DEF MapEffect, KeepBatch, GiveUpBatch, TypeInv
    <3> QED
      BY <1>3, <3>1, <3>3, <3>4, <3>5 DEF ClaimAndRun, NextTask, TypeInv
  <2>2. CASE ~(nextId < NTasks)
    BY <1>3, <2>2 DEF ClaimAndRun, NextTask, TypeInv, Places, Goto, caseVars
  <2> QED
    BY <2>1, <2>2
<1>4. ASSUME NEW r \in Rank, SkipWave(r) PROVE TypeInv'
  BY <1>4, DriverAssumption DEF SkipWave, TypeInv, Places, Task, Goto, ClearMaps
<1>5. ASSUME NEW r \in Rank, SolveWave(r) PROVE TypeInv'
  <2> DEFINE eligible == myTasks[r] \cap Batchable
  <2>1. PICK conv \in SUBSET eligible, quiet \in SUBSET eligible :
          /\ index' = [index EXCEPT ![r] = Kept(eligible, conv, quiet)]
          /\ summaries' = [summaries EXCEPT ![r] = Kept(eligible, conv, quiet)]
          /\ converged' = [converged EXCEPT ![r] = conv]
          /\ clean' = clean \cup {t \in conv : CheckQlim => t \in quiet}
    BY <1>5 DEF SolveWave
  <2>2. conv \subseteq Task /\ Kept(eligible, conv, quiet) \subseteq Task
    BY DEF Kept, TypeInv
  <2>3. /\ index' \in [Rank -> SUBSET Task] /\ summaries' \in [Rank -> SUBSET Task]
        /\ converged' \in [Rank -> SUBSET Task] /\ clean' \subseteq Task
    BY <2>1, <2>2 DEF TypeInv
  <2>4. pc' \in [Rank -> Places] /\ caches' \in [Rank -> {"base", "case"}]
    BY <1>5 DEF SolveWave, Goto, Places, TypeInv
  <2> QED
    BY <1>5, <2>3, <2>4 DEF SolveWave, TypeInv
<1>6. ASSUME NEW r \in Rank, WaveFails(r) PROVE TypeInv'
  BY <1>6, DriverAssumption DEF WaveFails, TypeInv, Places, Task, Goto, ClearMaps
<1>7. ASSUME NEW r \in Rank, Split(r) PROVE TypeInv'
  BY <1>7, DriverAssumption DEF Split, TypeInv, Places, Task, Goto, caseVars
<1>8. ASSUME NEW r \in Rank, RunRetained(r) PROVE TypeInv'
  <2>1. PICK t \in retained[r] : /\ RunOneCase(r, t)
                     /\ retained' = [retained EXCEPT ![r] = @ \ {t}]
    BY <1>8 DEF RunRetained
  <2>2. t \in Task
    BY <2>1 DEF TypeInv
  <2>3. PICK row \in Row : rows' = [rows EXCEPT ![t] = Append(@, row)]
    BY <2>1, <2>2, CaseEffect
  <2>4. /\ MapEffect(r, t)
        /\ convergence' \in [Rank -> Summary] /\ caches' \in [Rank -> {"base", "case"}]
    BY <2>1, <2>2, CaseEffect
  <2>5. rows' \in [Task -> Seq(Row)]
    BY <2>2, <2>3 DEF TypeInv
  <2>6. healthy' \in [Rank -> BOOLEAN] /\ index' \in [Rank -> SUBSET Task]
        /\ summaries' \in [Rank -> SUBSET Task]
    BY <2>4 DEF MapEffect, KeepBatch, GiveUpBatch, TypeInv
  <2> QED
    BY <1>8, <2>1, <2>4, <2>5, <2>6 DEF RunRetained, TypeInv
<1>9. ASSUME NEW r \in Rank, RestoreBase(r) PROVE TypeInv'
  BY <1>9, DriverAssumption DEF RestoreBase, TypeInv, Places, Task, Goto, waveVars
<1>10. ASSUME NEW r \in Rank, RunFallback(r) PROVE TypeInv'
  <2>1. PICK t \in fallback[r] : /\ RunOneCase(r, t)
                     /\ fallback' = [fallback EXCEPT ![r] = @ \ {t}]
    BY <1>10 DEF RunFallback
  <2>2. t \in Task
    BY <2>1 DEF TypeInv
  <2>3. PICK row \in Row : rows' = [rows EXCEPT ![t] = Append(@, row)]
    BY <2>1, <2>2, CaseEffect
  <2>4. /\ MapEffect(r, t)
        /\ convergence' \in [Rank -> Summary] /\ caches' \in [Rank -> {"base", "case"}]
    BY <2>1, <2>2, CaseEffect
  <2>5. rows' \in [Task -> Seq(Row)]
    BY <2>2, <2>3 DEF TypeInv
  <2>6. healthy' \in [Rank -> BOOLEAN] /\ index' \in [Rank -> SUBSET Task]
        /\ summaries' \in [Rank -> SUBSET Task]
    BY <2>4 DEF MapEffect, KeepBatch, GiveUpBatch, TypeInv
  <2> QED
    BY <1>10, <2>1, <2>4, <2>5, <2>6 DEF RunFallback, TypeInv
<1>11. ASSUME NEW r \in Rank, EndWave(r) PROVE TypeInv'
  BY <1>11, DriverAssumption
     DEF EndWave, TypeInv, Places, Task, Goto, AfterWave, caseVars
<1>12. CASE Barrier
  BY <1>12, DriverAssumption DEF Barrier, TypeInv, Places, Task
<1>13. CASE Reduce
  BY <1>13, DriverAssumption DEF Reduce, TypeInv, Places, Task, waveVars
<1>14. CASE UNCHANGED vars
  BY <1>14 DEF TypeInv, vars, waveVars, caseVars
<1> QED
  BY <1>1, <1>2, <1>3, <1>4, <1>5, <1>6, <1>7, <1>8, <1>9, <1>10, <1>11,
     <1>12, <1>13, <1>14 DEF Next, Step, Collective, Finished


(* Who has an event is not disturbed by what claims nothing and reports    *)
(* nothing.                                                                *)
LEMMA OwnerSame ==
  ASSUME TypeInv, OwnerInv, UNCHANGED rows,
         nextId' = nextId \/ (nextId >= NTasks /\ nextId' = nextId + 1),
         \A q \in Rank : Todo(q)' = Todo(q)
  PROVE  OwnerInv'
<1>1. \A q \in Rank : \A t \in Todo(q) : t < nextId' /\ rows'[t] = <<>>
  <2> SUFFICES ASSUME NEW q \in Rank, NEW t \in Todo(q) PROVE t < nextId' /\ rows'[t] = <<>>
    OBVIOUS
  <2>1. t \in Task
    BY TodoTasks
  <2> QED
    BY <2>1, DriverAssumption DEF OwnerInv, TypeInv, Task
<1>2. \A t \in Task : t >= nextId' => rows'[t] = <<>>
  BY DriverAssumption DEF OwnerInv, TypeInv, Task
<1>3. \A t \in Task : t < nextId' /\ rows'[t] = <<>> => \E q \in Rank : t \in Todo(q)
  BY DriverAssumption DEF OwnerInv, TypeInv, Task
<1>4. /\ \A q, s \in Rank : q # s => Todo(q) \cap Todo(s) = {}
      /\ \A t \in Task : Len(rows'[t]) <= 1
  BY DEF OwnerInv
<1> QED
  BY <1>1, <1>2, <1>3, <1>4 DEF OwnerInv

(* The claim of the next event by rank r.                                  *)
LEMMA OwnerClaim ==
  ASSUME TypeInv, OwnerInv, UNCHANGED rows, NEW r \in Rank,
         nextId \in Task, nextId' = nextId + 1,
         Todo(r)' = Todo(r) \cup {nextId},
         \A q \in Rank \ {r} : Todo(q)' = Todo(q)
  PROVE  OwnerInv'
<1>0. \A q \in Rank : nextId \notin Todo(q)
  BY DEF OwnerInv, TypeInv
<1>1. \A q \in Rank : \A t \in Todo(q)' : t < nextId' /\ rows'[t] = <<>>
  <2> SUFFICES ASSUME NEW q \in Rank, NEW t \in Todo(q)' PROVE t < nextId' /\ rows'[t] = <<>>
    OBVIOUS
  <2>1. CASE t \in Todo(q)
    <3>1. t \in Task
      BY <2>1, TodoTasks
    <3> QED
      BY <2>1, <3>1, DriverAssumption DEF OwnerInv, TypeInv, Task
  <2>2. CASE t = nextId
    BY <2>2 DEF OwnerInv, TypeInv
  <2> QED
    BY <2>1, <2>2
<1>2. \A t \in Task : t >= nextId' => rows'[t] = <<>>
  BY DriverAssumption DEF OwnerInv, TypeInv, Task
<1>3. \A t \in Task : t < nextId' /\ rows'[t] = <<>> => \E q \in Rank : t \in Todo(q)'
  <2> SUFFICES ASSUME NEW t \in Task, t < nextId', rows'[t] = <<>>
               PROVE  \E q \in Rank : t \in Todo(q)'
    OBVIOUS
  <2>1. CASE t = nextId
    BY <2>1
  <2>2. CASE t # nextId
    <3>1. t < nextId
      BY <2>2, DriverAssumption DEF TypeInv, Task
    <3>2. PICK q \in Rank : t \in Todo(q)
      BY <3>1 DEF OwnerInv
    <3> QED
      BY <3>2
  <2> QED
    BY <2>1, <2>2
<1>4. \A q, s \in Rank : q # s => Todo(q)' \cap Todo(s)' = {}
  BY <1>0 DEF OwnerInv
<1>5. \A t \in Task : Len(rows'[t]) <= 1
  BY DEF OwnerInv
<1> QED
  BY <1>1, <1>2, <1>3, <1>4, <1>5 DEF OwnerInv

(* A row for event t, which rank r had claimed or claims in this step.     *)
LEMMA OwnerReport ==
  ASSUME TypeInv, OwnerInv, NEW r \in Rank, NEW t \in Task,
         \E row \in Row : rows' = [rows EXCEPT ![t] = Append(@, row)],
         \/ t \in Todo(r) /\ nextId' = nextId
         \/ t = nextId /\ nextId' = nextId + 1,
         Todo(r)' = Todo(r) \ {t},
         \A q \in Rank \ {r} : Todo(q)' = Todo(q)
  PROVE  OwnerInv'
<1>0. PICK row \in Row : rows' = [rows EXCEPT ![t] = Append(@, row)]
  OBVIOUS
<1>1. /\ rows[t] = <<>> /\ t < nextId' /\ nextId' >= nextId
      /\ nextId \in Nat /\ nextId' \in Nat /\ t \in Int
  <2>1. nextId \in Nat /\ t \in Int
    BY DriverAssumption DEF TypeInv, Task
  <2>2. CASE t \in Todo(r) /\ nextId' = nextId
    BY <2>1, <2>2 DEF OwnerInv
  <2>3. CASE t = nextId /\ nextId' = nextId + 1
    <3>1. rows[t] = <<>>
      BY <2>1, <2>3 DEF OwnerInv
    <3> QED
      BY <2>1, <2>3, <3>1
  <2> QED
    BY <2>2, <2>3
<1>2. rows'[t] = <<row>> /\ Len(rows'[t]) = 1 /\ rows'[t] # <<>>
  <2>1. rows'[t] = Append(rows[t], row)
    BY <1>0 DEF TypeInv
  <2> QED
    BY <2>1, <1>1
<1>3. \A u \in Task \ {t} : rows'[u] = rows[u]
  BY <1>0 DEF TypeInv
<1>4. \A q \in Rank : t \notin Todo(q)'
  <2> SUFFICES ASSUME NEW q \in Rank, q # r PROVE t \notin Todo(q)
    OBVIOUS
  <2>1. CASE t \in Todo(r)
    BY <2>1 DEF OwnerInv
  <2>2. CASE t = nextId
    BY <2>2, <1>1 DEF OwnerInv
  <2> QED
    BY <2>1, <2>2
<1>5. \A q \in Rank : \A u \in Todo(q)' : u < nextId' /\ rows'[u] = <<>>
  <2> SUFFICES ASSUME NEW q \in Rank, NEW u \in Todo(q)' PROVE u < nextId' /\ rows'[u] = <<>>
    OBVIOUS
  <2>1. u \in Todo(q) /\ u # t
    BY <1>4
  <2>2. u \in Task /\ u \in Int
    BY <2>1, TodoTasks, DriverAssumption DEF Task
  <2>3. u < nextId /\ rows[u] = <<>>
    BY <2>1 DEF OwnerInv
  <2> QED
    BY <1>1, <1>3, <2>1, <2>2, <2>3
<1>6. \A u \in Task : u >= nextId' => rows'[u] = <<>>
  <2> SUFFICES ASSUME NEW u \in Task, u >= nextId' PROVE rows'[u] = <<>>
    OBVIOUS
  <2>1. u \in Int /\ u # t /\ u >= nextId
    BY <1>1, DriverAssumption DEF Task
  <2> QED
    BY <2>1, <1>3 DEF OwnerInv
<1>7. \A u \in Task : u < nextId' /\ rows'[u] = <<>> => \E q \in Rank : u \in Todo(q)'
  <2> SUFFICES ASSUME NEW u \in Task, u < nextId', rows'[u] = <<>>
               PROVE  \E q \in Rank : u \in Todo(q)'
    OBVIOUS
  <2>1. u # t /\ rows[u] = <<>>
    BY <1>2, <1>3
  <2>2. u < nextId
    BY <2>1, <1>1, DriverAssumption DEF Task
  <2>3. PICK q \in Rank : u \in Todo(q)
    BY <2>1, <2>2 DEF OwnerInv
  <2> QED
    BY <2>1, <2>3
<1>8. \A q, s \in Rank : q # s => Todo(q)' \cap Todo(s)' = {}
  BY DEF OwnerInv
<1>9. \A u \in Task : Len(rows'[u]) <= 1
  BY <1>2, <1>3 DEF OwnerInv
<1> QED
  BY <1>5, <1>6, <1>7, <1>8, <1>9 DEF OwnerInv

(* No step loses an event, or gives it to a second rank. *)
LEMMA OwnerStep ==
  ASSUME TypeInv, OwnerInv, PlaceInv, MapInv, [Next]_vars
  PROVE  OwnerInv'
<1>1. ASSUME NEW r \in Rank, Build(r) PROVE OwnerInv'
  <2>0. /\ pc' = [pc EXCEPT ![r] = "claim"] /\ UNCHANGED <<myTasks, retained, fallback>>
        /\ UNCHANGED <<rows, nextId>>
    BY <1>1 DEF Build, Goto, waveVars
  <2>1. \A q \in Rank : Todo(q)' = Todo(q)
    BY <1>1, <2>0 DEF Build, Todo, TypeInv, PlaceInv
  <2> QED
    BY <2>0, <2>1, OwnerSame
<1>2. ASSUME NEW r \in Rank, ClaimForWave(r) PROVE OwnerInv'
  <2>1. CASE nextId < NTasks
    <3>1. nextId \in Task /\ nextId' = nextId + 1 /\ UNCHANGED rows
      BY <1>2, <2>1, DriverAssumption
         DEF ClaimForWave, NextTask, caseVars, TypeInv, Task
    <3>2. Todo(r)' = Todo(r) \cup {nextId}
      BY <1>2, <2>1 DEF ClaimForWave, Todo, Goto, TypeInv
    <3>3. \A q \in Rank \ {r} : Todo(q)' = Todo(q)
      BY <1>2, <2>1 DEF ClaimForWave, Todo, Goto, TypeInv
    <3> QED
      BY <3>1, <3>2, <3>3, OwnerClaim
  <2>2. CASE ~(nextId < NTasks)
    <3>1. nextId >= NTasks /\ nextId' = nextId + 1 /\ UNCHANGED rows
      BY <1>2, <2>2, DriverAssumption DEF ClaimForWave, NextTask, caseVars, TypeInv
    <3>2. \A q \in Rank : Todo(q)' = Todo(q)
      BY <1>2, <2>2 DEF ClaimForWave, Todo, Goto, TypeInv
    <3> QED
      BY <3>1, <3>2, OwnerSame
  <2> QED
    BY <2>1, <2>2
<1>3. ASSUME NEW r \in Rank, ClaimAndRun(r) PROVE OwnerInv'
  <2>0. \A q \in Rank \ {r} : Todo(q)' = Todo(q)
    BY <1>3 DEF ClaimAndRun, Todo, Goto, TypeInv
  <2>1. CASE nextId < NTasks
    <3>1. nextId \in Task /\ nextId' = nextId + 1 /\ RunOneCase(r, nextId)
      BY <1>3, <2>1, DriverAssumption DEF ClaimAndRun, NextTask, TypeInv, Task
    <3>2. Todo(r)' = Todo(r) /\ Todo(r) = {}
      BY <1>3, <2>1 DEF ClaimAndRun, Todo, PlaceInv
    <3>3. \E row \in Row : rows' = [rows EXCEPT ![nextId] = Append(@, row)]
      BY <3>1, CaseEffect
    <3>4. Todo(r)' = Todo(r) \ {nextId}
      BY <3>2
    <3> QED
      BY <2>0, <3>1, <3>3, <3>4, OwnerReport
  <2>2. CASE ~(nextId < NTasks)
    <3>1. nextId >= NTasks /\ nextId' = nextId + 1 /\ UNCHANGED rows
      BY <1>3, <2>2, DriverAssumption DEF ClaimAndRun, NextTask, caseVars, TypeInv
    <3>2. Todo(r)' = Todo(r)
      BY <1>3, <2>2 DEF ClaimAndRun, Todo, Goto, TypeInv
    <3> QED
      BY <2>0, <3>1, <3>2, OwnerSame
  <2> QED
    BY <2>1, <2>2
<1>4. ASSUME NEW r \in Rank, SkipWave(r) PROVE OwnerInv'
  <2>1. \A q \in Rank : Todo(q)' = Todo(q)
    BY <1>4 DEF SkipWave, Todo, Goto, TypeInv, Places
  <2> QED
    BY <1>4, <2>1, OwnerSame DEF SkipWave
<1>5. ASSUME NEW r \in Rank, SolveWave(r) PROVE OwnerInv'
  <2>1. \A q \in Rank : Todo(q)' = Todo(q)
    BY <1>5 DEF SolveWave, Todo, Goto, TypeInv, Places
  <2> QED
    BY <1>5, <2>1, OwnerSame DEF SolveWave
<1>6. ASSUME NEW r \in Rank, WaveFails(r) PROVE OwnerInv'
  <2>1. \A q \in Rank : Todo(q)' = Todo(q)
    BY <1>6 DEF WaveFails, Todo, Goto, TypeInv, Places
  <2> QED
    BY <1>6, <2>1, OwnerSame DEF WaveFails
<1>7. ASSUME NEW r \in Rank, Split(r) PROVE OwnerInv'
  <2>1. \A q \in Rank : Todo(q)' = Todo(q)
    BY <1>7 DEF Split, Todo, Goto, TypeInv, Places
  <2> QED
    BY <1>7, <2>1, OwnerSame DEF Split, caseVars
<1>8. ASSUME NEW r \in Rank, RunRetained(r) PROVE OwnerInv'
  <2>1. PICK t \in retained[r] : RunOneCase(r, t) /\ retained' = [retained EXCEPT ![r] = @ \ {t}]
    BY <1>8 DEF RunRetained
  <2>2. t \in Task
    BY <2>1 DEF TypeInv
  <2>3. \E row \in Row : rows' = [rows EXCEPT ![t] = Append(@, row)]
    BY <2>1, <2>2, CaseEffect
  <2>4. t \in Todo(r) /\ nextId' = nextId
    BY <1>8, <2>1 DEF RunRetained, Todo
  <2>5. Todo(r)' = Todo(r) \ {t}
    BY <1>8, <2>1 DEF RunRetained, Todo, TypeInv, PlaceInv
  <2>6. \A q \in Rank \ {r} : Todo(q)' = Todo(q)
    BY <1>8, <2>1 DEF RunRetained, Todo, TypeInv
  <2> QED
    BY <2>2, <2>3, <2>4, <2>5, <2>6, OwnerReport
<1>9. ASSUME NEW r \in Rank, RestoreBase(r) PROVE OwnerInv'
  <2>0. /\ pc' = [pc EXCEPT ![r] = "fallback"] /\ UNCHANGED <<myTasks, retained, fallback>>
        /\ UNCHANGED <<rows, nextId>>
    BY <1>9 DEF RestoreBase, Goto, waveVars
  <2>1. \A q \in Rank : Todo(q)' = Todo(q)
    BY <1>9, <2>0 DEF RestoreBase, Todo, TypeInv
  <2> QED
    BY <2>0, <2>1, OwnerSame
<1>10. ASSUME NEW r \in Rank, RunFallback(r) PROVE OwnerInv'
  <2>1. PICK t \in fallback[r] : RunOneCase(r, t) /\ fallback' = [fallback EXCEPT ![r] = @ \ {t}]
    BY <1>10 DEF RunFallback
  <2>2. t \in Task
    BY <2>1 DEF TypeInv
  <2>3. \E row \in Row : rows' = [rows EXCEPT ![t] = Append(@, row)]
    BY <2>1, <2>2, CaseEffect
  <2>4. t \in Todo(r) /\ nextId' = nextId
    BY <1>10, <2>1 DEF RunFallback, Todo
  <2>5. Todo(r)' = Todo(r) \ {t}
    BY <1>10, <2>1 DEF RunFallback, Todo, TypeInv, PlaceInv
  <2>6. \A q \in Rank \ {r} : Todo(q)' = Todo(q)
    BY <1>10, <2>1 DEF RunFallback, Todo, TypeInv
  <2> QED
    BY <2>2, <2>3, <2>4, <2>5, <2>6, OwnerReport
<1>11. ASSUME NEW r \in Rank, EndWave(r) PROVE OwnerInv'
  <2>1. \A q \in Rank : Todo(q)' = Todo(q)
    BY <1>11 DEF EndWave, Todo, Goto, TypeInv, Places, AfterWave, PlaceInv
  <2> QED
    BY <1>11, <2>1, OwnerSame DEF EndWave, caseVars
<1>12. CASE Barrier
  <2>1. \A q \in Rank : Todo(q)' = Todo(q)
    BY <1>12 DEF Barrier, Todo, TypeInv, Places, PlaceInv
  <2> QED
    BY <1>12, <2>1, OwnerSame DEF Barrier
<1>13. CASE Reduce
  <2>1. \A q \in Rank : Todo(q)' = Todo(q)
    BY <1>13 DEF Reduce, Todo, TypeInv, Places
  <2> QED
    BY <1>13, <2>1, OwnerSame DEF Reduce
<1>14. CASE UNCHANGED vars
  BY <1>14, OwnerSame DEF vars, waveVars, Todo
<1> QED
  BY <1>1, <1>2, <1>3, <1>4, <1>5, <1>6, <1>7, <1>8, <1>9, <1>10, <1>11,
     <1>12, <1>13, <1>14 DEF Next, Step, Collective, Finished

(* Every step keeps what a rank knows at its place in the loop. *)
LEMMA PlaceStep ==
  ASSUME TypeInv, PlaceInv, MapInv, [Next]_vars
  PROVE  PlaceInv'
<1>1. ASSUME NEW r \in Rank, Build(r) PROVE PlaceInv'
  BY <1>1, DriverAssumption DEF Build, PlaceInv, TypeInv, Places, Goto, waveVars
<1>2. ASSUME NEW r \in Rank, ClaimForWave(r) PROVE PlaceInv'
  BY <1>2, DriverAssumption
     DEF ClaimForWave, PlaceInv, TypeInv, Places, Goto, NextTask, caseVars
<1>3. ASSUME NEW r \in Rank, ClaimAndRun(r) PROVE PlaceInv'
  <2>1. /\ nextId' = nextId + 1 /\ nextId' >= nextId
        /\ UNCHANGED <<useBatched, myTasks, retained, fallback, noMore>>
    BY <1>3 DEF ClaimAndRun, NextTask, TypeInv
  <2>2. /\ \A q \in Rank \ {r} : pc'[q] = pc[q] /\ index'[q] = index[q] /\ healthy'[q] = healthy[q]
        /\ pc'[r] \in {"claim", "barrier"}
        /\ pc'[r] = "barrier" => nextId >= NTasks
    <3>1. CASE nextId < NTasks
      <4>1. RunOneCase(r, nextId) /\ nextId \in Task /\ UNCHANGED pc
        BY <1>3, <3>1, DriverAssumption DEF ClaimAndRun, Task, TypeInv
      <4>2. MapEffect(r, nextId)
        BY <4>1, CaseEffect
      <4> QED
        BY <1>3, <4>1, <4>2
           DEF ClaimAndRun, MapEffect, KeepBatch, GiveUpBatch,
               TypeInv
    <3>2. CASE ~(nextId < NTasks)
      BY <1>3, <3>2, DriverAssumption DEF ClaimAndRun, Goto, TypeInv, caseVars
    <3> QED
      BY <3>1, <3>2
  <2> QED
    BY <1>3, <2>1, <2>2, DriverAssumption DEF ClaimAndRun, PlaceInv, TypeInv
<1>4. ASSUME NEW r \in Rank, SkipWave(r) PROVE PlaceInv'
  BY <1>4, DriverAssumption DEF SkipWave, PlaceInv, TypeInv, Places, Goto, ClearMaps
<1>5. ASSUME NEW r \in Rank, SolveWave(r) PROVE PlaceInv'
  BY <1>5, DriverAssumption DEF SolveWave, PlaceInv, TypeInv, Places, Goto
<1>6. ASSUME NEW r \in Rank, WaveFails(r) PROVE PlaceInv'
  BY <1>6, DriverAssumption
     DEF WaveFails, PlaceInv, TypeInv, Places, Goto, ClearMaps
<1>7. ASSUME NEW r \in Rank, Split(r) PROVE PlaceInv'
  BY <1>7, DriverAssumption DEF Split, PlaceInv, TypeInv, Places, Goto, caseVars
<1>8. ASSUME NEW r \in Rank, RunRetained(r) PROVE PlaceInv'
  <2>1. PICK t \in retained[r] : RunOneCase(r, t) /\ retained' = [retained EXCEPT ![r] = @ \ {t}]
    BY <1>8 DEF RunRetained
  <2>2. t \in Task
    BY <2>1 DEF TypeInv
  <2>3. MapEffect(r, t)
    BY <2>1, <2>2, CaseEffect
  <2>4. /\ \A q \in Rank \ {r} : index'[q] = index[q] /\ healthy'[q] = healthy[q]
    BY <2>3 DEF MapEffect, KeepBatch, GiveUpBatch, TypeInv
  <2> QED
    BY <1>8, <2>1, <2>4 DEF RunRetained, PlaceInv, TypeInv
<1>9. ASSUME NEW r \in Rank, RestoreBase(r) PROVE PlaceInv'
  BY <1>9, DriverAssumption
     DEF RestoreBase, PlaceInv, TypeInv, Places, Goto, waveVars
<1>10. ASSUME NEW r \in Rank, RunFallback(r) PROVE PlaceInv'
  <2>1. PICK t \in fallback[r] : RunOneCase(r, t) /\ fallback' = [fallback EXCEPT ![r] = @ \ {t}]
    BY <1>10 DEF RunFallback
  <2>2. t \in Task
    BY <2>1 DEF TypeInv
  <2>3. MapEffect(r, t)
    BY <2>1, <2>2, CaseEffect
  <2>4. /\ \A q \in Rank \ {r} : index'[q] = index[q] /\ healthy'[q] = healthy[q]
    BY <2>3 DEF MapEffect, KeepBatch, GiveUpBatch, TypeInv
  <2> QED
    BY <1>10, <2>1, <2>4 DEF RunFallback, PlaceInv, TypeInv
<1>11. ASSUME NEW r \in Rank, EndWave(r) PROVE PlaceInv'
  BY <1>11, DriverAssumption
     DEF EndWave, PlaceInv, TypeInv, Places, Goto, AfterWave, caseVars
<1>12. CASE Barrier
  BY <1>12, DriverAssumption DEF Barrier, PlaceInv, TypeInv, Places
<1>13. CASE Reduce
  BY <1>13, DriverAssumption DEF Reduce, PlaceInv, TypeInv, Places, waveVars
<1>14. CASE UNCHANGED vars
  BY <1>14 DEF vars, waveVars, PlaceInv
<1> QED
  BY <1>1, <1>2, <1>3, <1>4, <1>5, <1>6, <1>7, <1>8, <1>9, <1>10, <1>11,
     <1>12, <1>13, <1>14 DEF Next, Step, Collective, Finished

(* Every step keeps what the maps of a wave rest on: events that converged, *)
(* were found clean, and are overlaid on the base case.                      *)
LEMMA MapStep ==
  ASSUME TypeInv, PlaceInv, MapInv, [Next]_vars
  PROVE  MapInv'
<1>1. ASSUME NEW r \in Rank, Build(r) PROVE MapInv'
  BY <1>1 DEF Build, MapInv, TypeInv, PlaceInv, Goto, waveVars
<1>2. ASSUME NEW r \in Rank, ClaimForWave(r) PROVE MapInv'
  BY <1>2 DEF ClaimForWave, MapInv, TypeInv, PlaceInv, Goto, NextTask, caseVars
<1>3. ASSUME NEW r \in Rank, ClaimAndRun(r) PROVE MapInv'
  <2>0. UNCHANGED <<useBatched, converged, clean, built, retained>> /\ ~useBatched[r]
    BY <1>3 DEF ClaimAndRun
  <2>1. pc' = pc \/ pc' = [pc EXCEPT ![r] = "barrier"]
    BY <1>3 DEF ClaimAndRun, Goto
  <2>2. MapEffect(r, nextId) \/ UNCHANGED caseVars
    <3>1. CASE nextId < NTasks
      <4>1. RunOneCase(r, nextId) /\ nextId \in Task
        BY <1>3, <3>1, DriverAssumption DEF ClaimAndRun, Task, TypeInv
      <4> QED
        BY <4>1, CaseEffect
    <3>2. CASE ~(nextId < NTasks)
      BY <1>3, <3>2 DEF ClaimAndRun
    <3> QED
      BY <3>1, <3>2
  <2>3. \A q \in Rank \ {r} : caches'[q] = caches[q]
    <3>1. CASE nextId < NTasks
      <4>1. RunOneCase(r, nextId) /\ nextId \in Task
        BY <1>3, <3>1, DriverAssumption DEF ClaimAndRun, Task, TypeInv
      <4> QED
        BY <4>1, CaseEffect
    <3>2. CASE ~(nextId < NTasks)
      BY <1>3, <3>2 DEF ClaimAndRun, caseVars
    <3> QED
      BY <3>1, <3>2
  <2>4. /\ \A q \in Rank \ {r} : /\ index'[q] = index[q] /\ healthy'[q] = healthy[q]
                                 /\ summaries'[q] = summaries[q]
        /\ index'[r] = {} /\ summaries'[r] = {}
    BY <2>0, <2>2 DEF MapEffect, KeepBatch, GiveUpBatch, MapInv, TypeInv, caseVars
  <2>5. \A q \in Rank \ {r} : pc'[q] = pc[q]
    BY <2>1 DEF TypeInv
  <2>6. \A q \in Rank \ {r} : /\ converged'[q] = converged[q] /\ built'[q] = built[q]
                              /\ retained'[q] = retained[q] /\ useBatched'[q] = useBatched[q]
    BY <2>0
  <2>7. ~useBatched'[r]
    BY <2>0
  <2>8. healthy'[r] => ~useBatched'[r] /\ index'[r] = {}
    BY <2>4, <2>7
  <2>9. /\ \A q \in Rank \ {r} : built'[q] = built[q] /\ converged'[q] = converged[q]
        /\ clean' = clean
    BY <2>0, <2>6
  <2>10. \A q \in Rank \ {r} : /\ index'[q] = summaries'[q] /\ index'[q] \subseteq clean'
                               /\ index'[q] \subseteq converged'[q]
    BY <2>4, <2>9 DEF MapInv
  <2>11. \A q \in Rank \ {r} :
           /\ pc'[q] = "split" /\ index'[q] # {} => caches'[q] = "base" /\ built'[q] /\ healthy'[q]
           /\ useBatched'[q] /\ pc'[q] # "build" /\ healthy'[q] => built'[q]
           /\ ~useBatched'[q] => index'[q] = {}
    BY <2>3, <2>4, <2>5, <2>6 DEF MapInv
  <2>12. \A q \in Rank \ {r} :
           pc'[q] = "retained" /\ index'[q] # {} =>
             retained'[q] \subseteq index'[q] /\ caches'[q] = "base" /\ built'[q] /\ healthy'[q]
    BY <2>3, <2>4, <2>5, <2>6 DEF MapInv
  <2> QED
    BY <2>4, <2>7, <2>10, <2>11, <2>12 DEF MapInv
<1>4. ASSUME NEW r \in Rank, SkipWave(r) PROVE MapInv'
  BY <1>4 DEF SkipWave, MapInv, TypeInv, PlaceInv, Goto, ClearMaps
<1>5. ASSUME NEW r \in Rank, SolveWave(r) PROVE MapInv'
  <2> DEFINE eligible == myTasks[r] \cap Batchable
  <2>1. PICK conv \in SUBSET eligible, quiet \in SUBSET eligible :
          /\ index' = [index EXCEPT ![r] = Kept(eligible, conv, quiet)]
          /\ summaries' = [summaries EXCEPT ![r] = Kept(eligible, conv, quiet)]
          /\ converged' = [converged EXCEPT ![r] = conv]
          /\ clean' = clean \cup {t \in conv : CheckQlim => t \in quiet}
    BY <1>5 DEF SolveWave
  <2>2. Kept(eligible, conv, quiet) \subseteq conv /\ Kept(eligible, conv, quiet) \subseteq clean'
    BY <2>1, DriverAssumption DEF Kept
  <2>3. /\ index'[r] = summaries'[r] /\ index'[r] \subseteq converged'[r]
        /\ index'[r] \subseteq clean' /\ clean \subseteq clean'
    BY <2>1, <2>2 DEF TypeInv
  <2>4. \A q \in Rank \ {r} : /\ index'[q] = index[q] /\ summaries'[q] = summaries[q]
                              /\ converged'[q] = converged[q]
    BY <2>1 DEF TypeInv
  <2>5. /\ pc'[r] = "split" /\ caches'[r] = "base" /\ built'[r] /\ healthy'[r] /\ useBatched'[r]
        /\ UNCHANGED <<built, healthy, useBatched, retained>>
    BY <1>5 DEF SolveWave, Goto, TypeInv, PlaceInv, MapInv
  <2>6. \A q \in Rank \ {r} : pc'[q] = pc[q] /\ caches'[q] = caches[q]
    BY <1>5 DEF SolveWave, Goto, TypeInv
  <2> QED
    BY <2>3, <2>4, <2>5, <2>6 DEF MapInv
<1>6. ASSUME NEW r \in Rank, WaveFails(r) PROVE MapInv'
  BY <1>6 DEF WaveFails, MapInv, TypeInv, PlaceInv, Goto, ClearMaps
<1>7. ASSUME NEW r \in Rank, Split(r) PROVE MapInv'
  BY <1>7 DEF Split, MapInv, TypeInv, PlaceInv, Goto, caseVars
<1>8. ASSUME NEW r \in Rank, RunRetained(r) PROVE MapInv'
  <2>1. PICK t \in retained[r] : RunOneCase(r, t) /\ retained' = [retained EXCEPT ![r] = @ \ {t}]
    BY <1>8 DEF RunRetained
  <2>2. t \in Task
    BY <2>1 DEF TypeInv
  <2>3. MapEffect(r, t) /\ \A q \in Rank \ {r} : caches'[q] = caches[q]
    BY <2>1, <2>2, CaseEffect
  <2>4. CASE GiveUpBatch(r)
    BY <1>8, <2>1, <2>3, <2>4 DEF RunRetained, GiveUpBatch, MapInv, TypeInv
  <2>5. CASE t \in index[r] /\ KeepBatch /\ UNCHANGED caches
    BY <1>8, <2>1, <2>5 DEF RunRetained, KeepBatch, MapInv, TypeInv
  <2>6. CASE t \notin index[r] /\ KeepBatch
    BY <1>8, <2>1, <2>3, <2>6 DEF RunRetained, KeepBatch, MapInv, TypeInv
  <2> QED
    BY <2>3, <2>4, <2>5, <2>6 DEF MapEffect
<1>9. ASSUME NEW r \in Rank, RestoreBase(r) PROVE MapInv'
  BY <1>9 DEF RestoreBase, MapInv, TypeInv, PlaceInv, Goto, waveVars
<1>10. ASSUME NEW r \in Rank, RunFallback(r) PROVE MapInv'
  <2>1. PICK t \in fallback[r] : RunOneCase(r, t) /\ fallback' = [fallback EXCEPT ![r] = @ \ {t}]
    BY <1>10 DEF RunFallback
  <2>2. t \in Task
    BY <2>1 DEF TypeInv
  <2>3. MapEffect(r, t) /\ \A q \in Rank \ {r} : caches'[q] = caches[q]
    BY <2>1, <2>2, CaseEffect
  <2>4. CASE GiveUpBatch(r)
    BY <1>10, <2>1, <2>3, <2>4 DEF RunFallback, GiveUpBatch, MapInv, TypeInv
  <2>5. CASE t \in index[r] /\ KeepBatch /\ UNCHANGED caches
    BY <1>10, <2>1, <2>5 DEF RunFallback, KeepBatch, MapInv, TypeInv
  <2>6. CASE t \notin index[r] /\ KeepBatch
    BY <1>10, <2>1, <2>3, <2>6 DEF RunFallback, KeepBatch, MapInv, TypeInv
  <2> QED
    BY <2>3, <2>4, <2>5, <2>6 DEF MapEffect
<1>11. ASSUME NEW r \in Rank, EndWave(r) PROVE MapInv'
  BY <1>11 DEF EndWave, MapInv, TypeInv, PlaceInv, Goto, AfterWave, caseVars
<1>12. CASE Barrier
  BY <1>12 DEF Barrier, MapInv, TypeInv, PlaceInv
<1>13. CASE Reduce
  BY <1>13 DEF Reduce, MapInv, TypeInv, PlaceInv, waveVars
<1>14. CASE UNCHANGED vars
  BY <1>14 DEF vars, waveVars, MapInv
<1> QED
  BY <1>1, <1>2, <1>3, <1>4, <1>5, <1>6, <1>7, <1>8, <1>9, <1>10, <1>11,
     <1>12, <1>13, <1>14 DEF Next, Step, Collective, Finished


(* What a row says of its event stays true.                                *)
LEMMA RowsKept ==
  ASSUME RowInv, UNCHANGED rows, clean \subseteq clean'
  PROVE  RowInv'
BY DEF RowInv, OnlyCleanIsEmitted, SummaryIsOwn

(* An honest row can be added.                                             *)
LEMMA RowAdded ==
  ASSUME TypeInv, RowInv, UNCHANGED clean, NEW t \in Task,
         \E row \in Row : Honest(row, t) /\ rows' = [rows EXCEPT ![t] = Append(@, row)]
  PROVE  RowInv'
<1>0. PICK row \in Row : Honest(row, t) /\ rows' = [rows EXCEPT ![t] = Append(@, row)]
  OBVIOUS
<1>1. rows'[t] = Append(rows[t], row) /\ rows[t] \in Seq(Row)
  BY <1>0 DEF TypeInv
<1>2. \A u \in Task \ {t} : rows'[u] = rows[u]
  BY <1>0 DEF TypeInv
<1>3. \A i \in DOMAIN rows'[t] :
        rows'[t][i] = row \/ (i \in DOMAIN rows[t] /\ rows'[t][i] = rows[t][i])
  BY <1>1
<1>4. OnlyCleanIsEmitted'
  <2> SUFFICES ASSUME NEW u \in Task, NEW i \in DOMAIN rows'[u], rows'[u][i].by = "batch"
               PROVE  u \in clean /\ rows'[u][i].status = "SOLVED"
    BY DEF OnlyCleanIsEmitted
  <2>1. CASE u # t
    BY <2>1, <1>2 DEF RowInv, OnlyCleanIsEmitted
  <2>2. CASE u = t
    BY <2>2, <1>0, <1>3 DEF RowInv, OnlyCleanIsEmitted, Honest
  <2> QED
    BY <2>1, <2>2
<1>5. SummaryIsOwn'
  <2> SUFFICES ASSUME NEW u \in Task, NEW i \in DOMAIN rows'[u], rows'[u][i].status = "SOLVED"
               PROVE  rows'[u][i].cs = [task |-> u, by |-> rows'[u][i].by]
    BY DEF SummaryIsOwn
  <2>1. CASE u # t
    BY <2>1, <1>2 DEF RowInv, SummaryIsOwn
  <2>2. CASE u = t
    BY <2>2, <1>0, <1>3 DEF RowInv, SummaryIsOwn, Honest
  <2> QED
    BY <2>1, <2>2
<1> QED
  BY <1>4, <1>5 DEF RowInv

(* Every step keeps what the recorded rows say true. *)
LEMMA RowStep ==
  ASSUME TypeInv, MapInv, RowInv, [Next]_vars
  PROVE  RowInv'
<1>1. ASSUME NEW r \in Rank, Build(r) PROVE RowInv'
  BY <1>1, RowsKept DEF Build, waveVars
<1>2. ASSUME NEW r \in Rank, ClaimForWave(r) PROVE RowInv'
  BY <1>2, RowsKept DEF ClaimForWave, caseVars
<1>3. ASSUME NEW r \in Rank, ClaimAndRun(r) PROVE RowInv'
  <2>1. CASE nextId < NTasks
    <3>1. RunOneCase(r, nextId) /\ nextId \in Task
      BY <1>3, <2>1, DriverAssumption DEF ClaimAndRun, Task, TypeInv
    <3>2. \E row \in Row : Honest(row, nextId) /\ rows' = [rows EXCEPT ![nextId] = Append(@, row)]
      BY <3>1, CaseEffect
    <3> QED
      BY <1>3, <3>1, <3>2, RowAdded DEF ClaimAndRun
  <2>2. CASE ~(nextId < NTasks)
    BY <1>3, <2>2, RowsKept DEF ClaimAndRun, caseVars
  <2> QED
    BY <2>1, <2>2
<1>4. ASSUME NEW r \in Rank, SkipWave(r) PROVE RowInv'
  BY <1>4, RowsKept DEF SkipWave
<1>5. ASSUME NEW r \in Rank, SolveWave(r) PROVE RowInv'
  BY <1>5, RowsKept DEF SolveWave
<1>6. ASSUME NEW r \in Rank, WaveFails(r) PROVE RowInv'
  BY <1>6, RowsKept DEF WaveFails
<1>7. ASSUME NEW r \in Rank, Split(r) PROVE RowInv'
  BY <1>7, RowsKept DEF Split, caseVars
<1>8. ASSUME NEW r \in Rank, RunRetained(r) PROVE RowInv'
  <2>1. PICK t \in retained[r] : RunOneCase(r, t)
    BY <1>8 DEF RunRetained
  <2>2. t \in Task
    BY <2>1 DEF TypeInv
  <2>3. \E row \in Row : Honest(row, t) /\ rows' = [rows EXCEPT ![t] = Append(@, row)]
    BY <2>1, <2>2, CaseEffect
  <2> QED
    BY <1>8, <2>2, <2>3, RowAdded DEF RunRetained
<1>9. ASSUME NEW r \in Rank, RestoreBase(r) PROVE RowInv'
  BY <1>9, RowsKept DEF RestoreBase, waveVars
<1>10. ASSUME NEW r \in Rank, RunFallback(r) PROVE RowInv'
  <2>1. PICK t \in fallback[r] : RunOneCase(r, t)
    BY <1>10 DEF RunFallback
  <2>2. t \in Task
    BY <2>1 DEF TypeInv
  <2>3. \E row \in Row : Honest(row, t) /\ rows' = [rows EXCEPT ![t] = Append(@, row)]
    BY <2>1, <2>2, CaseEffect
  <2> QED
    BY <1>10, <2>2, <2>3, RowAdded DEF RunFallback
<1>11. ASSUME NEW r \in Rank, EndWave(r) PROVE RowInv'
  BY <1>11, RowsKept DEF EndWave, caseVars
<1>12. CASE Barrier
  BY <1>12, RowsKept DEF Barrier
<1>13. CASE Reduce
  BY <1>13, RowsKept DEF Reduce, waveVars
<1>14. CASE UNCHANGED vars
  BY <1>14, RowsKept DEF vars
<1> QED
  BY <1>1, <1>2, <1>3, <1>4, <1>5, <1>6, <1>7, <1>8, <1>9, <1>10, <1>11,
     <1>12, <1>13, <1>14 DEF Next, Step, Collective, Finished

(* The inductive invariant holds at the start. *)
LEMMA InitIInv ==
  ASSUME Init
  PROVE  IInv
<1>1. PICK enabled \in BOOLEAN : useBatched = [r \in Rank |-> enabled /\ r \in Devices]
  BY DEF Init
<1>2. useBatched \in [Rank -> BOOLEAN]
  BY <1>1, Zenon
<1>3. \A r \in Rank : pc[r] = IF useBatched[r] THEN "build" ELSE "claim"
  BY DEF Init
<1>4. NoSummary \in Summary
  BY DEF NoSummary, Summary
<1>5. TypeInv
  BY <1>2, <1>4 DEF Init, TypeInv, Places
<1>6. \A r \in Rank : Todo(r) = {}
  BY <1>3 DEF Init, Todo
<1>7. OwnerInv
  BY <1>6, DriverAssumption DEF OwnerInv, Init, Task
<1>8. PlaceInv /\ MapInv
  BY <1>2, <1>3 DEF Init, PlaceInv, MapInv
<1>9. RowInv
  BY DEF Init, RowInv, OnlyCleanIsEmitted, SummaryIsOwn
<1> QED
  BY <1>5, <1>7, <1>8, <1>9 DEF IInv

(* Every reachable state satisfies the inductive invariant. *)
THEOREM Inductive == Spec => []IInv
<1>1. Init => IInv
  BY InitIInv
<1>2. IInv /\ [Next]_vars => IInv'
  BY TypeStep, OwnerStep, PlaceStep, MapStep, RowStep DEF IInv
<1> QED
  BY <1>1, <1>2, PTL DEF Spec

-----------------------------------------------------------------------------
(* Types, for every instance of the contingency loop. *)
THEOREM TypeCorrect == Spec => []TypeInv
<1>1. IInv => TypeInv
  BY DEF IInv
<1> QED
  BY <1>1, Inductive, PTL

(* No event is ever reported twice, and once all ranks are done none is    *)
(* missing, however many times the batched path has failed.                *)
THEOREM AlwaysOneRowPerEvent == Spec => []OneRowPerEvent
<1>1. IInv => OneRowPerEvent
  <2> SUFFICES ASSUME IInv, NEW t \in Task
               PROVE  /\ Len(rows[t]) <= 1
                      /\ (\A r \in Rank : pc[r] = "done") => Len(rows[t]) = 1
    BY DEF OneRowPerEvent
  <2>1. Len(rows[t]) <= 1
    BY DEF IInv, OwnerInv
  <2>2. ASSUME \A r \in Rank : pc[r] = "done" PROVE Len(rows[t]) = 1
    <3>1. \A r \in Rank : Todo(r) = {} /\ nextId >= NTasks
      BY <2>2 DEF IInv, PlaceInv, Todo
    <3>2. t < nextId
      BY <3>1, DriverAssumption DEF Task, IInv, TypeInv
    <3>3. rows[t] # <<>>
      BY <3>1, <3>2 DEF IInv, OwnerInv
    <3>4. rows[t] \in Seq(Row)
      BY DEF IInv, TypeInv
    <3>5. \A seq \in Seq(Row) : seq # <<>> => Len(seq) \in Nat \ {0}
      BY EmptySeq
    <3>6. Len(rows[t]) \in Nat \ {0}
      BY <3>3, <3>4, <3>5, Zenon
    <3>7. \A n \in Nat \ {0} : n <= 1 => n = 1
      OBVIOUS
    <3> QED
      BY <2>1, <3>6, <3>7, Zenon
  <2> QED
    BY <2>1, <2>2
<1> QED
  BY <1>1, Inductive, PTL

(* A state of the batch is reported only if it converged and the screen    *)
(* found no controller that would act on it.                               *)
THEOREM OnlyCleanIsEverEmitted == Spec => []OnlyCleanIsEmitted
<1>1. IInv => OnlyCleanIsEmitted
  BY DEF IInv, RowInv
<1> QED
  BY <1>1, Inductive, PTL

(* The row of a solved event has its own convergence numbers. *)
THEOREM SummaryIsAlwaysOwn == Spec => []SummaryIsOwn
<1>1. IInv => SummaryIsOwn
  BY DEF IInv, RowInv
<1> QED
  BY <1>1, Inductive, PTL

(* A saved state is overlaid on the base case, by an assembler that works. *)
THEOREM OverlayAlwaysOnBase == Spec => []OverlayOnBase
<1>1. IInv => OverlayOnBase
  BY DEF IInv, MapInv, OverlayOnBase
<1> QED
  BY <1>1, Inductive, PTL

(* What a step does to the health of a rank and to its maps.               *)
LEMMA HealthStep ==
  ASSUME TypeInv, PlaceInv, MapInv, [Next]_vars
  PROVE  GivenUpForGood
<1>1. ASSUME NEW r \in Rank, Build(r) PROVE GivenUpForGood
  BY <1>1 DEF Build, GivenUpForGood, TypeInv, PlaceInv, waveVars
<1>2. ASSUME NEW r \in Rank, ClaimForWave(r) PROVE GivenUpForGood
  BY <1>2 DEF ClaimForWave, GivenUpForGood, TypeInv, PlaceInv, caseVars
<1>3. ASSUME NEW r \in Rank, ClaimAndRun(r) PROVE GivenUpForGood
  <2>1. CASE nextId < NTasks
    <3>1. RunOneCase(r, nextId) /\ nextId \in Task
      BY <1>3, <2>1, DriverAssumption DEF ClaimAndRun, Task, TypeInv
    <3>2. MapEffect(r, nextId)
      BY <3>1, CaseEffect
    <3> QED
      BY <3>2 DEF MapEffect, KeepBatch, GiveUpBatch, GivenUpForGood, TypeInv
  <2>2. CASE ~(nextId < NTasks)
    BY <1>3, <2>2 DEF ClaimAndRun, caseVars, GivenUpForGood
  <2> QED
    BY <2>1, <2>2
<1>4. ASSUME NEW r \in Rank, SkipWave(r) PROVE GivenUpForGood
  BY <1>4 DEF SkipWave, GivenUpForGood, TypeInv, PlaceInv, ClearMaps
<1>5. ASSUME NEW r \in Rank, SolveWave(r) PROVE GivenUpForGood
  BY <1>5 DEF SolveWave, GivenUpForGood, TypeInv, PlaceInv
<1>6. ASSUME NEW r \in Rank, WaveFails(r) PROVE GivenUpForGood
  BY <1>6 DEF WaveFails, GivenUpForGood, TypeInv, PlaceInv, ClearMaps
<1>7. ASSUME NEW r \in Rank, Split(r) PROVE GivenUpForGood
  BY <1>7 DEF Split, GivenUpForGood, TypeInv, PlaceInv, caseVars
<1>8. ASSUME NEW r \in Rank, RunRetained(r) PROVE GivenUpForGood
  <2>1. PICK t \in retained[r] : RunOneCase(r, t)
    BY <1>8 DEF RunRetained
  <2>2. t \in Task
    BY <2>1 DEF TypeInv
  <2>3. MapEffect(r, t)
    BY <2>1, <2>2, CaseEffect
  <2> QED
    BY <2>3 DEF MapEffect, KeepBatch, GiveUpBatch, GivenUpForGood, TypeInv
<1>9. ASSUME NEW r \in Rank, RestoreBase(r) PROVE GivenUpForGood
  BY <1>9 DEF RestoreBase, GivenUpForGood, TypeInv, PlaceInv, waveVars
<1>10. ASSUME NEW r \in Rank, RunFallback(r) PROVE GivenUpForGood
  <2>1. PICK t \in fallback[r] : RunOneCase(r, t)
    BY <1>10 DEF RunFallback
  <2>2. t \in Task
    BY <2>1 DEF TypeInv
  <2>3. MapEffect(r, t)
    BY <2>1, <2>2, CaseEffect
  <2> QED
    BY <2>3 DEF MapEffect, KeepBatch, GiveUpBatch, GivenUpForGood, TypeInv
<1>11. ASSUME NEW r \in Rank, EndWave(r) PROVE GivenUpForGood
  BY <1>11 DEF EndWave, GivenUpForGood, TypeInv, PlaceInv, caseVars
<1>12. CASE Barrier
  BY <1>12 DEF Barrier, GivenUpForGood, TypeInv, PlaceInv
<1>13. CASE Reduce
  BY <1>13 DEF Reduce, GivenUpForGood, TypeInv, PlaceInv, waveVars
<1>14. CASE UNCHANGED vars
  BY <1>14 DEF vars, waveVars, GivenUpForGood
<1> QED
  BY <1>1, <1>2, <1>3, <1>4, <1>5, <1>6, <1>7, <1>8, <1>9, <1>10, <1>11,
     <1>12, <1>13, <1>14 DEF Next, Step, Collective, Finished

(* A rank that gave the batch up stays without it. *)
THEOREM NeverEverRetried == Spec => NeverRetried
<1>1. IInv /\ [Next]_vars => [GivenUpForGood]_vars
  BY HealthStep DEF IInv
<1> QED
  BY <1>1, Inductive, PTL DEF Spec, NeverRetried

-----------------------------------------------------------------------------
(* The writer that a rank hands the blocks of its rows to.                 *)

(* The two threads know of each other's progress. *)
ThreadsInv ==
  /\ caller = "new" => ~ async
  /\ ~ async <=> wpc = "none"
  /\ caller \in {"notify", "stopnotify", "join"} => async
  /\ caller = "new" => calls = 0
  /\ ~ async => queue = <<>>
  /\ local # <<>> => wpc = "drain"
  /\ stop => caller \in {"stopnotify", "join", "closed"}
  /\ wpc = "done" => stop /\ queue = <<>>
  /\ (caller = "closed" /\ async) => wpc = "done"
  /\ wrote <=> out # <<>>

WriterInv == TypeOK /\ InOrder /\ ThreadsInv /\ NoLostWakeup

-----------------------------------------------------------------------------
(* Facts about sequences. *)

(* A block appended to the last of two sequences is at the end of both.    *)
LEMMA AppendAtEnd ==
  ASSUME NEW S, NEW s \in Seq(S), NEW t \in Seq(S), NEW x \in S
  PROVE  s \o Append(t, x) = Append(s \o t, x)
<1>1. s \o t \in Seq(S) /\ <<x>> \in Seq(S)
  BY ConcatProperties
<1>2. Append(t, x) = t \o <<x>> /\ Append(s \o t, x) = (s \o t) \o <<x>>
  BY <1>1, AppendIsConcat
<1>. QED BY <1>1, <1>2, ConcatAssociative

(* A block that moves from the head of one sequence to the end of the one  *)
(* before it leaves the concatenation as it was.                           *)
LEMMA MoveHead ==
  ASSUME NEW S, NEW s \in Seq(S), NEW t \in Seq(S), t # <<>>
  PROVE  Append(s, Head(t)) \o Tail(t) = s \o t
<1>1. /\ Head(t) \in S /\ Tail(t) \in Seq(S) /\ Len(Tail(t)) = Len(t) - 1
      /\ \A i \in 1 .. Len(Tail(t)) : Tail(t)[i] = t[i + 1]
  BY HeadTailProperties
<1>2. Append(s, Head(t)) \in Seq(S)
  BY <1>1, AppendProperties
<1>3. Append(s, Head(t)) \o Tail(t) \in Seq(S) /\ s \o t \in Seq(S)
  BY <1>1, <1>2, ConcatProperties
<1>4. Len(Append(s, Head(t)) \o Tail(t)) = Len(s \o t)
  BY <1>1, <1>2, ConcatProperties, AppendProperties, LenProperties
<1>5. \A i \in 1 .. Len(s \o t) :
        (Append(s, Head(t)) \o Tail(t))[i] = (s \o t)[i]
  BY <1>1, <1>2, ConcatProperties, AppendProperties, LenProperties
<1>. QED BY <1>3, <1>4, <1>5, SeqEqual

(* The head of a concatenation is that of its first part with a block.     *)
LEMMA HeadOfConcat ==
  ASSUME NEW S, NEW s \in Seq(S), NEW t \in Seq(S), s # <<>>
  PROVE  /\ s \o t # <<>>
         /\ Head(s \o t) = Head(s)
         /\ Tail(s \o t) = Tail(s) \o t
<1>1. /\ Len(s) \in Nat \ {0} /\ Len(t) \in Nat
      /\ s \o t \in Seq(S) /\ Len(s \o t) = Len(s) + Len(t)
      /\ \A i \in 1 .. Len(s) + Len(t) :
           (s \o t)[i] = IF i <= Len(s) THEN s[i] ELSE t[i - Len(s)]
  BY ConcatProperties, EmptySeq, LenProperties
<1>2. s \o t # <<>>
  BY <1>1, EmptySeq
<1>3. Head(s \o t) = Head(s)
  BY <1>1
<1>4. /\ Tail(s) \in Seq(S) /\ Len(Tail(s)) = Len(s) - 1
      /\ \A i \in 1 .. Len(Tail(s)) : Tail(s)[i] = s[i + 1]
  BY HeadTailProperties
<1>5. /\ Tail(s \o t) \in Seq(S) /\ Len(Tail(s \o t)) = Len(s) + Len(t) - 1
      /\ \A i \in 1 .. Len(Tail(s \o t)) : Tail(s \o t)[i] = (s \o t)[i + 1]
  BY <1>1, <1>2, HeadTailProperties
<1>6. /\ Tail(s) \o t \in Seq(S) /\ Len(Tail(s) \o t) = Len(s) + Len(t) - 1
      /\ \A i \in 1 .. Len(Tail(s) \o t) :
           (Tail(s) \o t)[i] = IF i <= Len(s) - 1 THEN s[i + 1] ELSE t[i - Len(s) + 1]
  BY <1>1, <1>4, ConcatProperties
<1>7. \A i \in 1 .. Len(Tail(s \o t)) : Tail(s \o t)[i] = (Tail(s) \o t)[i]
  BY <1>1, <1>5, <1>6
<1>. QED BY <1>2, <1>3, <1>5, <1>6, <1>7, SeqEqual

(* One more call is one more number at the end. *)
LEMMA WrittenGrows ==
  ASSUME NEW n \in Nat
  PROVE  [i \in 1 .. (n + 1) |-> i] = Append([i \in 1 .. n |-> i], n + 1)
OBVIOUS

(* The blocks of the calls are as many as the calls.                       *)
LEMMA WrittenType ==
  ASSUME TypeOK
  PROVE  Written \in Seq(Block) /\ Len(Written) = calls
BY MaxBlocksAssumption DEF TypeOK, Written, Block

-----------------------------------------------------------------------------
(* No step of producer or consumer leaves the types.                       *)
LEMMA WriterTypeStep == TypeOK /\ [WriterNext]_writerVars => TypeOK'
<1>. SUFFICES ASSUME TypeOK, [WriterNext]_writerVars PROVE TypeOK'
  OBVIOUS
<1>. USE MaxBlocksAssumption DEF TypeOK, Block
<1>1. ASSUME NEW a \in BOOLEAN, Open(a) PROVE TypeOK'
  BY <1>1 DEF Open
<1>2. CASE WriteSync
  <2>1. out' \in Seq(Block)
    BY <1>2, AppendProperties DEF WriteSync, PutBlock
  <2>. QED BY <1>2, <2>1 DEF WriteSync, PutBlock
<1>3. CASE Push
  <2>1. queue' \in Seq(Block)
    BY <1>3, AppendProperties DEF Push
  <2>. QED BY <1>3, <2>1 DEF Push
<1>4. CASE Notify
  BY <1>4 DEF Notify, NotifyOne
<1>5. CASE CloseSync
  BY <1>5 DEF CloseSync
<1>6. CASE RequestStop
  BY <1>6 DEF RequestStop
<1>7. CASE NotifyStop
  BY <1>7 DEF NotifyStop, NotifyOne
<1>8. CASE Join
  BY <1>8 DEF Join
<1>9. CASE Sleep
  BY <1>9 DEF Sleep
<1>10. CASE SpuriousWakeup
  BY <1>10 DEF SpuriousWakeup
<1>11. CASE Swap
  BY <1>11 DEF Swap
<1>12. CASE DrainOne
  <2>1. out' \in Seq(Block) /\ local' \in Seq(Block)
    BY <1>12, AppendProperties, HeadTailProperties DEF DrainOne, PutBlock
  <2>. QED BY <1>12, <2>1 DEF DrainOne, PutBlock
<1>13. CASE DrainEnd
  BY <1>13 DEF DrainEnd
<1>14. CASE CheckExit
  BY <1>14 DEF CheckExit
<1>15. CASE UNCHANGED writerVars
  BY <1>15 DEF writerVars
<1>. QED
  BY <1>1, <1>2, <1>3, <1>4, <1>5, <1>6, <1>7, <1>8, <1>9, <1>10, <1>11, <1>12, <1>13, <1>14, <1>15
  DEF WriterNext, Producer, Consumer, WriterClosed

(* What one thread knows of the other stays true.                          *)
LEMMA ThreadsStep ==
  TypeOK /\ ThreadsInv /\ [WriterNext]_writerVars => ThreadsInv'
<1>. SUFFICES ASSUME TypeOK, ThreadsInv, [WriterNext]_writerVars PROVE ThreadsInv'
  OBVIOUS
<1>. USE DEF TypeOK, ThreadsInv
<1>1. ASSUME NEW a \in BOOLEAN, Open(a) PROVE ThreadsInv'
  BY <1>1 DEF Open
<1>2. CASE WriteSync
  <2>1. out' # <<>>
    BY <1>2, AppendProperties DEF WriteSync, PutBlock
  <2>. QED BY <1>2, <2>1 DEF WriteSync, PutBlock
<1>3. CASE Push
  BY <1>3 DEF Push
<1>4. CASE Notify
  BY <1>4 DEF Notify, NotifyOne
<1>5. CASE CloseSync
  BY <1>5 DEF CloseSync
<1>6. CASE RequestStop
  BY <1>6 DEF RequestStop
<1>7. CASE NotifyStop
  BY <1>7 DEF NotifyStop, NotifyOne
<1>8. CASE Join
  BY <1>8 DEF Join
<1>9. CASE Sleep
  BY <1>9 DEF Sleep
<1>10. CASE SpuriousWakeup
  BY <1>10 DEF SpuriousWakeup
<1>11. CASE Swap
  BY <1>11 DEF Swap
<1>12. CASE DrainOne
  <2>1. out' # <<>>
    BY <1>12, AppendProperties, HeadTailProperties DEF DrainOne, PutBlock
  <2>. QED BY <1>12, <2>1 DEF DrainOne, PutBlock
<1>13. CASE DrainEnd
  BY <1>13 DEF DrainEnd
<1>14. CASE CheckExit
  BY <1>14 DEF CheckExit
<1>15. CASE UNCHANGED writerVars
  BY <1>15 DEF writerVars
<1>. QED
  BY <1>1, <1>2, <1>3, <1>4, <1>5, <1>6, <1>7, <1>8, <1>9, <1>10, <1>11, <1>12, <1>13, <1>14, <1>15
  DEF WriterNext, Producer, Consumer, WriterClosed

(* A consumer with work to do does not sleep for ever: whoever adds work   *)
(* notifies next.                                                          *)
LEMMA WakeupStep ==
  TypeOK /\ ThreadsInv /\ NoLostWakeup /\ [WriterNext]_writerVars => NoLostWakeup'
<1>. SUFFICES ASSUME TypeOK, ThreadsInv, NoLostWakeup, [WriterNext]_writerVars
              PROVE  NoLostWakeup'
  OBVIOUS
<1>. USE DEF TypeOK, ThreadsInv, NoLostWakeup
<1>1. ASSUME NEW a \in BOOLEAN, Open(a) PROVE NoLostWakeup'
  BY <1>1 DEF Open
<1>2. CASE WriteSync
  BY <1>2 DEF WriteSync
<1>3. CASE Push
  BY <1>3 DEF Push
<1>4. CASE Notify
  BY <1>4 DEF Notify, NotifyOne
<1>5. CASE CloseSync
  BY <1>5 DEF CloseSync
<1>6. CASE RequestStop
  BY <1>6 DEF RequestStop
<1>7. CASE NotifyStop
  BY <1>7 DEF NotifyStop, NotifyOne
<1>8. CASE Join
  BY <1>8 DEF Join
<1>9. CASE Sleep
  BY <1>9 DEF Sleep
<1>10. CASE SpuriousWakeup
  BY <1>10 DEF SpuriousWakeup
<1>11. CASE Swap
  BY <1>11 DEF Swap
<1>12. CASE DrainOne
  BY <1>12 DEF DrainOne
<1>13. CASE DrainEnd
  BY <1>13 DEF DrainEnd
<1>14. CASE CheckExit
  BY <1>14 DEF CheckExit
<1>15. CASE UNCHANGED writerVars
  BY <1>15 DEF writerVars
<1>. QED
  BY <1>1, <1>2, <1>3, <1>4, <1>5, <1>6, <1>7, <1>8, <1>9, <1>10, <1>11, <1>12, <1>13, <1>14, <1>15
  DEF WriterNext, Producer, Consumer, WriterClosed

(* Blocks move from the queue to the local deque to the file, from head    *)
(* to end.                                                                 *)
LEMMA InOrderStep ==
  TypeOK /\ ThreadsInv /\ InOrder /\ [WriterNext]_writerVars => InOrder'
<1>. SUFFICES ASSUME TypeOK, ThreadsInv, InOrder, [WriterNext]_writerVars PROVE InOrder'
  OBVIOUS
<1>. USE MaxBlocksAssumption DEF TypeOK
<1>0. out \o local \in Seq(Block)
  BY ConcatProperties
<1>1. ASSUME NEW a \in BOOLEAN, Open(a) PROVE InOrder'
  BY <1>1 DEF Open, InOrder, Written
<1>2. CASE WriteSync
  <2>1. queue = <<>> /\ local = <<>>
    BY <1>2 DEF WriteSync, ThreadsInv
  <2>2. calls + 1 \in Block
    BY <1>2 DEF WriteSync, Block
  <2>3. Append(out, calls + 1) \in Seq(Block)
    BY <2>2, AppendProperties
  <2>4. out = Written
    BY <2>1, ConcatEmptySeq DEF InOrder
  <2>5. (out \o local \o queue)' = Append(out, calls + 1)
    BY <1>2, <2>1, <2>3, ConcatEmptySeq DEF WriteSync, PutBlock
  <2>. QED BY <1>2, <2>4, <2>5, WrittenGrows DEF InOrder, Written, WriteSync
<1>3. CASE Push
  <2>1. calls + 1 \in Block
    BY <1>3 DEF Push, Block
  <2>2. (out \o local \o queue)' = (out \o local) \o Append(queue, calls + 1)
    BY <1>3 DEF Push
  <2>4. (out \o local) \o Append(queue, calls + 1) = Append(out \o local \o queue, calls + 1)
    BY <1>0, <2>1, AppendAtEnd
  <2>3. Written' = Append(Written, calls + 1)
    BY <1>3, WrittenGrows DEF Written, Push
  <2>. QED BY <2>2, <2>3, <2>4 DEF InOrder
<1>4. CASE Notify
  BY <1>4 DEF Notify, InOrder, Written
<1>5. CASE CloseSync
  BY <1>5 DEF CloseSync, InOrder, Written
<1>6. CASE RequestStop
  BY <1>6 DEF RequestStop, InOrder, Written
<1>7. CASE NotifyStop
  BY <1>7 DEF NotifyStop, InOrder, Written
<1>8. CASE Join
  BY <1>8 DEF Join, InOrder, Written
<1>9. CASE Sleep
  BY <1>9 DEF Sleep, InOrder, Written
<1>10. CASE SpuriousWakeup
  BY <1>10 DEF SpuriousWakeup, InOrder, Written
<1>11. CASE Swap
  <2>1. local = <<>>
    BY <1>11 DEF Swap, ThreadsInv
  <2>2. (out \o local \o queue)' = out \o queue
    BY <1>11, ConcatProperties, ConcatEmptySeq DEF Swap
  <2>3. out \o local \o queue = out \o queue
    BY <2>1, ConcatEmptySeq
  <2>. QED BY <1>11, <2>2, <2>3 DEF Swap, InOrder, Written
<1>12. CASE DrainOne
  <2>1. (out \o local)' = out \o local
    BY <1>12, MoveHead DEF DrainOne, PutBlock
  <2>. QED BY <1>12, <2>1 DEF DrainOne, InOrder, Written
<1>13. CASE DrainEnd
  BY <1>13 DEF DrainEnd, InOrder, Written
<1>14. CASE CheckExit
  BY <1>14 DEF CheckExit, InOrder, Written
<1>15. CASE UNCHANGED writerVars
  BY <1>15 DEF writerVars, InOrder, Written
<1>. QED
  BY <1>1, <1>2, <1>3, <1>4, <1>5, <1>6, <1>7, <1>8, <1>9, <1>10, <1>11, <1>12, <1>13, <1>14, <1>15
  DEF WriterNext, Producer, Consumer, WriterClosed

-----------------------------------------------------------------------------
(* A writer that is not open has no blocks.                                *)
LEMMA WriterInitInv == WriterInit => WriterInv
<1>. SUFFICES ASSUME WriterInit PROVE WriterInv
  OBVIOUS
<1>1. <<>> \in Seq(Block)
  OBVIOUS
<1>2. TypeOK
  <2>1. /\ queue \in Seq(Block) /\ local \in Seq(Block) /\ out \in Seq(Block)
        /\ calls \in 0 .. MaxBlocks
        /\ caller \in {"new", "run", "notify", "stopnotify", "join", "closed"}
        /\ wpc \in {"none", "wait", "asleep", "drain", "check", "done"}
    BY <1>1, MaxBlocksAssumption DEF WriterInit
  <2>2. async \in BOOLEAN /\ stop \in BOOLEAN /\ open \in BOOLEAN /\ wrote \in BOOLEAN
    BY Zenon DEF WriterInit
  <2>. QED BY <2>1, <2>2 DEF TypeOK
<1>3. Written = <<>>
  BY DEF WriterInit, Written
<1>4. InOrder
  BY <1>1, <1>3, ConcatEmptySeq DEF WriterInit, InOrder
<1>5. ThreadsInv /\ NoLostWakeup
  BY DEF WriterInit, ThreadsInv, NoLostWakeup
<1>. QED BY <1>2, <1>4, <1>5 DEF WriterInv

(* Types, order, the knowledge of the threads and the wake-ups together    *)
(* are inductive.                                                          *)
THEOREM WriterInductive == WriterSpec => []WriterInv
<1>1. WriterInv /\ [WriterNext]_writerVars => WriterInv'
  BY WriterTypeStep, ThreadsStep, WakeupStep, InOrderStep DEF WriterInv
<1>. QED BY WriterInitInv, <1>1, PTL DEF WriterSpec

(* The declared types hold. *)
THEOREM WriterTypeCorrect == WriterSpec => []TypeOK
<1>. QED BY WriterInductive, PTL DEF WriterInv

(* No block is lost, doubled or overtaken on its way to the file. *)
THEOREM InOrderHolds == WriterSpec => []InOrder
<1>. QED BY WriterInductive, PTL DEF WriterInv

(* A sleeping consumer that has work is about to be notified. *)
THEOREM NoLostWakeupHolds == WriterSpec => []NoLostWakeup
<1>. QED BY WriterInductive, PTL DEF WriterInv

(* Nothing is pending once close() has returned. *)
LEMMA ClosedIsDrained ==
  ASSUME WriterInv, caller = "closed"
  PROVE  queue = <<>> /\ local = <<>>
BY DEF WriterInv, ThreadsInv, TypeOK

(* close() returns only when the file holds every block. *)
THEOREM ClosedIsCompleteHolds == WriterSpec => []ClosedIsComplete
<1>1. WriterInv => ClosedIsComplete
  <2>. SUFFICES ASSUME WriterInv, caller = "closed"
                PROVE  out = Written /\ (wrote <=> calls > 0)
    BY DEF ClosedIsComplete
  <2>1. out = Written
    BY ClosedIsDrained, ConcatEmptySeq DEF WriterInv, InOrder, TypeOK
  <2>2. Len(out) = calls /\ calls \in Nat
    BY <2>1, WrittenType DEF WriterInv, TypeOK
  <2>3. wrote <=> Len(out) # 0
    BY EmptySeq DEF WriterInv, ThreadsInv, TypeOK
  <2>. QED BY <2>1, <2>2, <2>3
<1>. QED BY <1>1, WriterInductive, PTL

-----------------------------------------------------------------------------
(* The refinement of RowWriter. *)
(* The block that reaches the file is the next one of the calls.           *)
LEMMA NextBlockIsNext ==
  ASSUME WriterInv
  PROVE  Rows!NextBlock = calls + 1
<1>1. /\ Len(local \o queue) = Len(local) + Len(queue)
      /\ Len(out \o local \o queue) = Len(out) + Len(local) + Len(queue)
      /\ Len(out) \in Nat /\ Len(local) \in Nat /\ Len(queue) \in Nat
  BY ConcatProperties, LenProperties DEF WriterInv, TypeOK
<1>2. Len(out \o local \o queue) = calls
  BY WrittenType DEF WriterInv, InOrder
<1>. QED BY <1>1, <1>2 DEF Rows!NextBlock

(* Each step is one of RowWriter or does not concern it.                   *)
LEMMA RowsStep ==
  ASSUME WriterInv, WriterInv', [WriterNext]_writerVars
  PROVE  [Rows!Next]_Rows!vars
<1>. USE DEF WriterInv, TypeOK
<1>1. ASSUME NEW a \in BOOLEAN, Open(a) PROVE [Rows!Next]_Rows!vars
  BY <1>1 DEF Open, Rows!vars
<1>2. CASE WriteSync
  <2>1. local \o queue = <<>>
    BY <1>2, ConcatEmptySeq DEF WriteSync, ThreadsInv
  <2>2. Rows!WriteThrough
    BY <1>2, <2>1, NextBlockIsNext DEF WriteSync, PutBlock, Rows!WriteThrough
  <2>. QED BY <2>2 DEF Rows!Next
<1>3. CASE Push
  <2>1. calls + 1 \in Block
    BY <1>3, MaxBlocksAssumption DEF Push, Block
  <2>2. (local \o queue)' = Append(local \o queue, calls + 1)
    BY <1>3, <2>1, AppendAtEnd DEF Push
  <2>3. Rows!WriteLater
    BY <1>3, <2>2, NextBlockIsNext DEF Push, Rows!WriteLater
  <2>. QED BY <2>3 DEF Rows!Next
<1>4. CASE Notify
  BY <1>4 DEF Notify, Rows!vars
<1>5. CASE CloseSync
  <2>1. local \o queue = <<>>
    BY <1>5, ConcatEmptySeq DEF CloseSync, ThreadsInv
  <2>2. Rows!Close
    BY <1>5, <2>1 DEF CloseSync, Rows!Close
  <2>. QED BY <2>2 DEF Rows!Next
<1>6. CASE RequestStop
  BY <1>6 DEF RequestStop, Rows!vars
<1>7. CASE NotifyStop
  BY <1>7 DEF NotifyStop, Rows!vars
<1>8. CASE Join
  <2>1. local \o queue = <<>>
    BY <1>8, ConcatEmptySeq DEF Join, ThreadsInv
  <2>2. Rows!Close
    BY <1>8, <2>1 DEF Join, Rows!Close
  <2>. QED BY <2>2 DEF Rows!Next
<1>9. CASE Sleep
  BY <1>9 DEF Sleep, Rows!vars
<1>10. CASE SpuriousWakeup
  BY <1>10 DEF SpuriousWakeup, Rows!vars
<1>11. CASE Swap
  <2>1. (local \o queue)' = local \o queue
    BY <1>11, ConcatEmptySeq DEF Swap, ThreadsInv
  <2>. QED BY <1>11, <2>1 DEF Swap, Rows!vars
<1>12. CASE DrainOne
  <2>1. /\ local \o queue # <<>>
        /\ Head(local \o queue) = Head(local)
        /\ Tail(local \o queue) = Tail(local) \o queue
    BY <1>12, HeadOfConcat DEF DrainOne
  <2>2. Rows!Flush
    BY <1>12, <2>1 DEF DrainOne, PutBlock, Rows!Flush
  <2>. QED BY <2>2 DEF Rows!Next
<1>13. CASE DrainEnd
  BY <1>13 DEF DrainEnd, Rows!vars
<1>14. CASE CheckExit
  BY <1>14 DEF CheckExit, Rows!vars
<1>15. CASE UNCHANGED writerVars
  BY <1>15 DEF writerVars, Rows!vars
<1>. QED
  BY <1>1, <1>2, <1>3, <1>4, <1>5, <1>6, <1>7, <1>8, <1>9, <1>10, <1>11, <1>12, <1>13, <1>14, <1>15
  DEF WriterNext, Producer, Consumer, WriterClosed

(* In either mode the writer does what RowWriter promises. *)
THEOREM WriterImplements == WriterSpec => ImplementsRowWriter
<1>1. WriterInit => Rows!Init
  BY ConcatEmptySeq DEF WriterInit, Rows!Init
<1>. QED
  BY <1>1, RowsStep, WriterInductive, PTL DEF WriterSpec, ImplementsRowWriter, Rows!Spec
=============================================================================
